---- MODULE Spec2Model ----
(***************************************************************************)
(* A model of the IvyUpgrade reconciler of the ivory-operator: the upgrade *)
(* object and its status conditions, the objects of the control plane the  *)
(* reconciler observes (cluster, statefulsets, jobs, Patroni endpoints)    *)
(* and one Reconcile pass as a function of the upgrade and the observed    *)
(* world.                                                                  *)
(***************************************************************************)
EXTENDS Integers, FiniteSets, Sequences, TLC

\* ------------------------------------------------------------------ bounds
MaxVersion == 2
MaxReplicas == 2
MaxBackupJobs == 2
MaxEndpoints == 2
MaxCreates == 2

Versions == 1..MaxVersion
\* The versions a cluster can declare: those an upgrade can name and one more.
ClusterVersions == 1..(MaxVersion + 1)
ReplicaIds == 1..MaxReplicas
BackupJobIds == 1..MaxBackupJobs
EndpointIds == 1..MaxEndpoints

\* ------------------------------------------------------- names of the code
AnnotationAllowUpgrade == "ivory-operator.highgo.com/allow-upgrade"
ConditionIvyUpgradeProgressing == "Progressing"
ConditionIvyUpgradeSucceeded == "Succeeded"

\* The name of the upgrade under reconciliation and the values the
\* allow-upgrade annotation of the cluster can take ("" is: not annotated).
UpgradeName == "u1"
OtherUpgradeName == "u2"
AnnotationValues == {"", UpgradeName, OtherUpgradeName}

\* metadata.generation of the upgrade; its spec is not edited in the model.
UpgradeGeneration == 1

JobStates == {"Absent", "Active", "Complete", "Failed"}

VARIABLES
  upgrade,            \* the IvyUpgrade: spec and status conditions
  cluster,            \* the IvoryCluster the upgrade targets
  statefulsets,       \* the replica instance statefulsets of the cluster
  jobs,               \* the jobs: upgrade job, remove-data jobs, replica-create jobs
  endpoints,          \* the Patroni DCS endpoints objects of the cluster
  upgradeJobCreates,  \* create calls made for the upgrade job so far
  last,               \* the Reconcile pass that has just run, if any
  monitoring,         \* pgMonitor: the exporter's inputs, the recorded revision
  pgbackrest,         \* pgBackRest: the inputs and the generated configuration
  ivory,              \* IvorySQL parameters: the instance sets, the parameters set
  dcs                 \* the versions of the Patroni endpoints, when they are tracked

\* The state of the upgrade controller, and that of the other reconcilers.
upgradeVars == <<upgrade, cluster, statefulsets, jobs, endpoints, upgradeJobCreates, last>>
others == <<monitoring, pgbackrest, ivory, dcs>>

vars == <<upgrade, cluster, statefulsets, jobs, endpoints, upgradeJobCreates, last,
          monitoring, pgbackrest, ivory, dcs>>

\* The other reconcilers at rest, while the upgrade controller is studied.
NoMonitoring == [ran |-> FALSE]
NoPGBackRest == [generated |-> {}]
NoIvory == [set |-> FALSE]
NoDCS == [revision |-> 0, live |-> {}]
OthersIdle ==
  monitoring = NoMonitoring /\ pgbackrest = NoPGBackRest /\ ivory = NoIvory /\ dcs = NoDCS

\* ------------------------------------------------------------- conditions
NoCondition ==
  [status |-> "Absent", reason |-> "", message |-> <<>>, observedGeneration |-> 0]

Condition(status, reason, message) ==
  [status |-> status, reason |-> reason, message |-> message,
   observedGeneration |-> UpgradeGeneration]

FindStatusCondition(conds, type) == conds[type]

SetStatusCondition(conds, type, c) == [conds EXCEPT ![type] = c]

\* A refresh that does not look at the previous reason.
setStatusToProgressingAlways(reason, conds) ==
  [conds EXCEPT ![ConditionIvyUpgradeProgressing] =
     Condition("True", "IvyUpgradeProgressing", <<"progressing">>)]
\* @ is the Progressing condition meta.FindStatusCondition finds.
setStatusToProgressingIfReasonWas(reason, conds) ==
  [conds EXCEPT ![ConditionIvyUpgradeProgressing] =
     IF @ = NoCondition \/ @.reason = reason
     THEN Condition("True", "IvyUpgradeProgressing", <<"progressing">>)
     ELSE @]

SetProgressingFalse(conds, reason, message) ==
  SetStatusCondition(conds, ConditionIvyUpgradeProgressing,
    Condition("False", reason, message))

\* ------------------------------------------------------------------ world
jobCompleted(j) == j = "Complete"
jobFailed(j) == j = "Failed"

NoCluster ==
  [exists |-> FALSE, specVersion |-> 0, statusVersion |-> 0, annotation |-> "",
   running |-> FALSE, primary |-> FALSE, repos |-> FALSE]

NoJobs ==
  [upgrade |-> "Absent", removeData |-> [r \in ReplicaIds |-> "Absent"],
   replicaCreate |-> {}]

\* The world of a pass that returned before observing.
NoWorld ==
  [observed |-> FALSE, ClusterNotFound |-> FALSE, Cluster |-> NoCluster,
   ClusterShutdown |-> FALSE, ClusterPrimary |-> FALSE, ClusterReplicas |-> {},
   ReplicasExpected |-> 0, Jobs |-> NoJobs, PatroniEndpoints |-> {}]

observeWorld ==
  IF ~cluster.exists
  THEN [NoWorld EXCEPT !.observed = TRUE, !.ClusterNotFound = TRUE]
  ELSE [observed |-> TRUE, ClusterNotFound |-> FALSE, Cluster |-> cluster,
        ClusterShutdown |-> ~cluster.running,
        ClusterPrimary |-> cluster.primary,
        ClusterReplicas |-> IF cluster.running THEN {} ELSE statefulsets,
        ReplicasExpected |-> Cardinality(statefulsets),
        Jobs |-> jobs, PatroniEndpoints |-> endpoints]

\* ------------------------------------------------ the API calls of a pass
NoFault == [kind |-> "none", at |-> 0, error |-> "nil"]

\* The errors of a delete with preconditions on UID and resourceVersion: the
\* object is gone (NotFound), or it is not the object observed (Conflict).
DeleteErrors == {"NotFound", "Conflict"}

Faults ==
  {NoFault}
  \cup {[kind |-> k, at |-> 0, error |-> "Internal"] :
          k \in {"observeWorld", "applyUpgradeJob", "patchClusterStatus",
                 "patchUpgradeStatus"}}
  \cup {[kind |-> "applyRemoveData", at |-> r, error |-> "Internal"] : r \in ReplicaIds}
  \cup {[kind |-> "deleteJob", at |-> b, error |-> e] :
          b \in BackupJobIds, e \in DeleteErrors}
  \cup {[kind |-> "deleteEndpoints", at |-> x, error |-> e] :
          x \in EndpointIds, e \in DeleteErrors}

\* client.IgnoreNotFound
IgnoreNotFound(e) == IF e = "NotFound" THEN "nil" ELSE e

\* The API calls a pass makes (first field of each pair) and those of them
\* that succeed (second field). The jobs a pass deletes are named by kind.
NoCalls ==
  [applyUpgradeJob |-> FALSE, upgradeJobApplied |-> FALSE,
   applyRemoveData |-> {}, removeDataApplied |-> {},
   deleteJob |-> {}, jobsDeleted |-> {},
   patchClusterStatus |-> FALSE, clusterStatusPatched |-> FALSE,
   deleteEndpoints |-> {}, endpointsDeleted |-> {}]

\* The jobs of a world, as the keys of world.Jobs.
UpgradeJobKey == <<"pgupgrade", 0>>
RemoveDataKey(r) == <<"removedata", r>>
ReplicaCreateKey(b) == <<"replica-create", b>>

JobKeys(w) ==
  (IF w.Jobs.upgrade # "Absent" THEN {UpgradeJobKey} ELSE {})
  \cup {RemoveDataKey(r) : r \in {x \in ReplicaIds : w.Jobs.removeData[x] # "Absent"}}
  \cup {ReplicaCreateKey(b) : b \in w.Jobs.replicaCreate}

EmptyResult == [Requeue |-> FALSE, RequeueAfter |-> 0]

Return(gate, conds, result, err, calls) ==
  [gate |-> gate, status |-> conds, result |-> result, err |-> err, calls |-> calls]


Max(S) == CHOOSE x \in S : \A y \in S : y <= x

\* ---------------------------------------------- the facts a pass derives
upgradeJobComplete(w) == jobCompleted(w.Jobs.upgrade)
upgradeJobFailed(w) == jobFailed(w.Jobs.upgrade)
removeDataJobsFailed(w) == \E r \in ReplicaIds : jobFailed(w.Jobs.removeData[r])
CompletedRemoveData(w) == {r \in ReplicaIds : jobCompleted(w.Jobs.removeData[r])}

\* len(removeDataJobsCompleted): the loop ranges over a map, so its order is
\* arbitrary, and it stops at the first failed job it meets.
RemoveDataCounts(w) ==
  IF removeDataJobsFailed(w)
  THEN 0..Cardinality(CompletedRemoveData(w))
  ELSE {Cardinality(CompletedRemoveData(w))}

\* A comparison that asks for more completed jobs than replicas.
removeDataJobsCompleteStrict(w, counted) == counted > w.ReplicasExpected
removeDataJobsComplete(w, counted) == counted = w.ReplicasExpected

\* --------------------------------------------------- the guards of a pass
\* A reconciler without the early return on a succeeded upgrade.
AlreadySucceededIgnored(conds) == FALSE
AlreadySucceeded(conds) ==
  LET succeeded == FindStatusCondition(conds, ConditionIvyUpgradeSucceeded)
  IN succeeded # NoCondition /\ succeeded.reason = "IvyUpgradeSucceeded"

\* A validation that lets an upgrade to the same version through.
InvalidVersionsStrict(spec) == spec.from > spec.to
InvalidVersions(spec) == spec.from >= spec.to

\* A no-op test on the running version instead of the declared one.
ResolvedNoOpByStatus(spec, w) ==
  w.Cluster.statusVersion = spec.to /\ ~upgradeJobComplete(w)
ResolvedNoOp(spec, w) ==
  w.Cluster.specVersion = spec.to /\ ~upgradeJobComplete(w)

\* A completion test on the declared version instead of the running one.
AtTargetVersionBySpec(spec, w) == w.Cluster.specVersion = spec.to
AtTargetVersion(spec, w) == w.Cluster.statusVersion = spec.to

\* A shutdown test that does not ask for the primary.
NotShutdownIgnoresPrimary(w) == ~w.ClusterShutdown
NotShutdown(w) == ~w.ClusterShutdown \/ ~w.ClusterPrimary

\* A version gate on the running version instead of the declared one.
VersionMismatchByStatus(spec, w) ==
  w.Cluster.statusVersion # spec.from /\ w.Cluster.statusVersion # spec.to
VersionMismatch(spec, w) ==
  w.Cluster.specVersion # spec.from /\ w.Cluster.statusVersion # spec.to

\* A reconciler that does not ask for the annotation.
allowedAlways(spec, w) == TRUE
allowed(spec, w) == w.Cluster.annotation = spec.name

\* A failure test that looks at the upgrade job only.
JobsFailedUpgradeOnly(w) == upgradeJobFailed(w)
JobsFailed(w) == upgradeJobFailed(w) \/ removeDataJobsFailed(w)

\* A completion test that does not wait for the remove-data jobs.
JobsRanToCompletionUpgradeOnly(spec, w, counted) ==
  /\ upgradeJobComplete(w)
  /\ w.Cluster.statusVersion # spec.to
JobsRanToCompletion(spec, w, counted) ==
  /\ upgradeJobComplete(w)
  /\ removeDataJobsComplete(w, counted)
  /\ w.Cluster.statusVersion # spec.to

\* ---------------------------------------------------- the gates of a pass
InvalidGate(spec, conds) ==
  Return("IvyUpgradeInvalid",
    SetProgressingFalse(conds, "IvyUpgradeInvalid", <<"cannot upgrade", spec.from, spec.to>>),
    EmptyResult, "nil", NoCalls)

\* An observation gate that drops the error.
ObserveErrorGateSwallows(conds) ==
  Return("PGClusterErrorWhenObservingWorld",
    SetProgressingFalse(conds, "PGClusterErrorWhenObservingWorld", <<"observe error">>),
    EmptyResult, "nil", NoCalls)
ObserveErrorGate(conds) ==
  Return("PGClusterErrorWhenObservingWorld",
    SetProgressingFalse(conds, "PGClusterErrorWhenObservingWorld", <<"observe error">>),
    EmptyResult, "observeWorld", NoCalls)

NotFoundGate(conds) ==
  Return("PGClusterNotFound",
    SetProgressingFalse(conds, "PGClusterNotFound", <<"not found">>),
    EmptyResult, "nil", NoCalls)

ResolvedGate(spec, conds) ==
  Return("IvyUpgradeResolved",
    SetProgressingFalse(conds, "IvyUpgradeResolved", <<"already running", spec.to>>),
    EmptyResult, "nil", NoCalls)

CompletedGate(spec, conds, w, counted) ==
  LET c == SetProgressingFalse(conds, "IvyUpgradeCompleted", <<"running", spec.to>>)
  IN Return("IvyUpgradeCompleted",
       IF upgradeJobComplete(w) /\ removeDataJobsComplete(w, counted)
       THEN SetStatusCondition(c, ConditionIvyUpgradeSucceeded,
              Condition("True", "IvyUpgradeSucceeded", <<"ready", spec.to>>))
       ELSE c,
       EmptyResult, "nil", NoCalls)

ShutdownGate(conds) ==
  Return("PGClusterNotShutdown",
    SetProgressingFalse(conds, "PGClusterNotShutdown", <<"still running">>),
    EmptyResult, "nil", NoCalls)

\* A version gate that reports the reason of the validation gate.
VersionGateReusesReason(spec, conds, w) ==
  Return("IvyUpgradeInvalidForCluster",
    SetProgressingFalse(conds, "IvyUpgradeInvalid",
      <<"current", w.Cluster.specVersion, spec.from>>),
    EmptyResult, "nil", NoCalls)
VersionGate(spec, conds, w) ==
  Return("IvyUpgradeInvalidForCluster",
    SetProgressingFalse(conds, "IvyUpgradeInvalidForCluster",
      <<"current", w.Cluster.specVersion, spec.from>>),
    EmptyResult, "nil", NoCalls)

AuthorizationGate(conds) ==
  Return("PGClusterMissingRequiredAnnotation",
    SetProgressingFalse(conds, "PGClusterMissingRequiredAnnotation", <<"lacks annotation">>),
    EmptyResult, "nil", NoCalls)

\* A failure outcome that asks to be requeued.
FailedGateRequeues(conds) ==
  Return("IvyUpgradeFailed",
    SetStatusCondition(conds, ConditionIvyUpgradeSucceeded,
      Condition("False", "IvyUpgradeFailed", <<"jobs failed">>)),
    [Requeue |-> TRUE, RequeueAfter |-> 0], "nil", NoCalls)
FailedGate(conds) ==
  Return("IvyUpgradeFailed",
    SetStatusCondition(conds, ConditionIvyUpgradeSucceeded,
      Condition("False", "IvyUpgradeFailed", <<"jobs failed">>)),
    EmptyResult, "nil", NoCalls)

\* --------------------------------------------------- the phases of a pass
\* The jobs the completion fan-out deletes: those labelled as replica-create
\* backups.
\* A fan-out that deletes every job of the world.
IsAnyJob(key) == TRUE
IsReplicaCreate(key) == key[1] = "replica-create"

\* Completion fan-out: delete the replica-create jobs, stopping at the first
\* error, then patch the cluster status. pre: the jobs the loop meets before
\* the one whose deletion fails.
FanOut(conds, w, f, pre) ==
  LET todo == {k \in JobKeys(w) : IsReplicaCreate(k)}
      bad == ReplicaCreateKey(f.at)
      failed == /\ f.kind = "deleteJob" /\ bad \in todo
                /\ IgnoreNotFound(f.error) # "nil"
      attempted == IF failed THEN (pre \cap (todo \ {bad})) \cup {bad} ELSE todo
      deleted == IF failed THEN attempted \ {bad} ELSE todo
      patchErr == ~failed /\ f.kind = "patchClusterStatus"
      err == IF failed THEN "deleteJob"
             ELSE IF patchErr THEN "patchClusterStatus" ELSE "nil"
  IN Return("FanOut", conds, EmptyResult, err,
       [NoCalls EXCEPT !.deleteJob = attempted, !.jobsDeleted = deleted,
                       !.patchClusterStatus = ~failed,
                       !.clusterStatusPatched = ~failed /\ ~patchErr])

\* Whether the drive-forward phase applies the upgrade job.
AppliesUpgradeJob(w) == ~upgradeJobComplete(w)

\* The replicas the drive-forward phase applies a remove-data job for.
\* A drive-forward phase that does not wait for the upgrade job.
RemoveDataTargetsAtOnce(w, counted) ==
  IF ~removeDataJobsComplete(w, counted) THEN w.ClusterReplicas ELSE {}
RemoveDataTargets(w, counted) ==
  IF upgradeJobComplete(w) /\ ~removeDataJobsComplete(w, counted)
  THEN w.ClusterReplicas ELSE {}

\* The error the loop over the Patroni endpoints leaves: that of the last
\* deletion.
EndpointsError(eps, f) ==
  IF f.kind = "deleteEndpoints" /\ f.at = Max(eps) /\ IgnoreNotFound(f.error) # "nil"
  THEN "deleteEndpoints" ELSE "nil"

\* Drive forward: apply the upgrade job, then the remove-data jobs, then
\* delete the Patroni endpoints.
Drive(conds, w, f, counted) ==
  LET applyUJ == AppliesUpgradeJob(w)
      err1 == IF applyUJ /\ f.kind = "applyUpgradeJob" THEN "applyUpgradeJob" ELSE "nil"
      targets == IF err1 = "nil" THEN RemoveDataTargets(w, counted) ELSE {}
      rdFault == f.kind = "applyRemoveData" /\ f.at \in targets
      rdAttempted == IF rdFault THEN {r \in targets : r <= f.at} ELSE targets
      rdApplied == IF rdFault THEN rdAttempted \ {f.at} ELSE rdAttempted
      err2 == IF rdFault THEN "applyRemoveData" ELSE err1
      eps == w.PatroniEndpoints
      epFault == /\ f.kind = "deleteEndpoints" /\ f.at \in eps
                 /\ IgnoreNotFound(f.error) # "nil"
      calls == [NoCalls EXCEPT
                  !.applyUpgradeJob = applyUJ,
                  !.upgradeJobApplied = applyUJ /\ err1 = "nil",
                  !.applyRemoveData = rdAttempted,
                  !.removeDataApplied = rdApplied,
                  !.deleteEndpoints = eps,
                  !.endpointsDeleted = IF epFault THEN eps \ {f.at} ELSE eps]
  IN IF eps # {}
     THEN Return("Drive", conds, [Requeue |-> TRUE, RequeueAfter |-> 0],
            EndpointsError(eps, f), calls)
     ELSE Return("Drive", conds, EmptyResult, err2, calls)

\* The part of Reconcile after the world has been observed without error.
AfterObserve(spec, c3, w, f, counted, pre) ==
  LET c4 == setStatusToProgressingIfReasonWas("PGClusterNotFound", c3)
      c5 == setStatusToProgressingIfReasonWas("IvyUpgradeResolved", c4)
      c6 == setStatusToProgressingIfReasonWas("PGClusterNotShutdown", c5)
      c7 == setStatusToProgressingIfReasonWas("IvyUpgradeInvalidForCluster", c6)
      c8 == setStatusToProgressingIfReasonWas("PGClusterMissingRequiredAnnotation", c7)
  IN IF w.ClusterNotFound THEN NotFoundGate(c3)
     ELSE IF ResolvedNoOp(spec, w) THEN ResolvedGate(spec, c4)
     ELSE IF AtTargetVersion(spec, w) THEN CompletedGate(spec, c5, w, counted)
     ELSE IF NotShutdown(w) THEN ShutdownGate(c5)
     ELSE IF VersionMismatch(spec, w) THEN VersionGate(spec, c6, w)
     ELSE IF ~allowed(spec, w) THEN AuthorizationGate(c7)
     ELSE IF JobsFailed(w) THEN FailedGate(c8)
     ELSE IF JobsRanToCompletion(spec, w, counted) THEN FanOut(c8, w, f, pre)
     ELSE Drive(c8, w, f, counted)

\* Whether a pass returns before it observes the world.
ReturnsBeforeObserve(spec, conds) ==
  AlreadySucceeded(conds) \/ InvalidVersions(spec)

\* The body of Reconcile, from the read of the upgrade to its return.
ReconcileBody(spec, c0, w, f, counted, pre) ==
  LET c1 == setStatusToProgressingIfReasonWas("", c0)
      c2 == setStatusToProgressingIfReasonWas("IvyUpgradeInvalid", c1)
      c3 == setStatusToProgressingIfReasonWas("PGClusterErrorWhenObservingWorld", c2)
  IN IF AlreadySucceeded(c0)
     THEN Return("AlreadySucceeded", c0, EmptyResult, "nil", NoCalls)
     ELSE IF InvalidVersions(spec) THEN InvalidGate(spec, c1)
     ELSE IF f.kind = "observeWorld" THEN ObserveErrorGate(c2)
     ELSE AfterObserve(spec, c3, w, f, counted, pre)

\* The read of the upgrade fails with an error that is not NotFound.
GetFault == [kind |-> "getUpgrade", at |-> 0, error |-> "Internal"]

\* Whether r.Get of the upgrade returns an error: the upgrade is gone, or the
\* read fails.
UpgradeNotRead(spec, f) == ~spec.exists \/ f = GetFault

\* A reconciler that returns the NotFound error of the read.
GetUpgradeErrorNotIgnored(spec, f) ==
  IF UpgradeNotRead(spec, f) THEN "getUpgrade" ELSE "nil"

\* client.IgnoreNotFound(err) of the read of the upgrade.
GetUpgradeError(spec, f) == IF f = GetFault THEN "getUpgrade" ELSE "nil"

\* Reconcile, from the read of the upgrade on: without the upgrade it returns
\* at once, and no status patch is deferred.
ReconcileRequest(spec, c0, w, f, counted, pre) ==
  IF UpgradeNotRead(spec, f)
  THEN Return("UpgradeNotRead", c0, EmptyResult, GetUpgradeError(spec, f), NoCalls)
  ELSE ReconcileBody(spec, c0, w, f, counted, pre)

\* A reconciler that patches the status only when the body returns no error.
DeferredStatusPatchOnSuccess(out, c0, f) ==
  LET changed == out.status # c0 /\ out.err = "nil"
      failed == changed /\ f.kind = "patchUpgradeStatus"
  IN [statusPatch |-> IF ~changed THEN "none" ELSE IF failed THEN "failed" ELSE "ok",
      err |-> IF out.err = "nil" /\ failed THEN "patchUpgradeStatus" ELSE out.err]

\* The deferred function: patch the upgrade status if it has changed.
DeferredStatusPatch(out, c0, f) ==
  LET changed == out.status # c0
      failed == changed /\ f.kind = "patchUpgradeStatus"
  IN [statusPatch |-> IF ~changed THEN "none" ELSE IF failed THEN "failed" ELSE "ok",
      err |-> IF out.err = "nil" /\ failed THEN "patchUpgradeStatus" ELSE out.err]

\* ------------------------------------------------------------------ state
NoConditions ==
  [Progressing |-> NoCondition, Succeeded |-> NoCondition]

NoPass ==
  [ran |-> FALSE, gate |-> "", world |-> NoWorld, before |-> NoConditions,
   status |-> NoConditions, result |-> EmptyResult, err |-> "nil",
   calls |-> NoCalls, statusPatch |-> "none", created |-> FALSE,
   fault |-> "none", faultError |-> "nil"]

\* The startup instance (the primary) of a cluster is recorded only while
\* the cluster is shut down.
Clusters ==
  {c \in [exists : {TRUE}, specVersion : ClusterVersions,
          statusVersion : {0} \cup Versions,
          annotation : AnnotationValues, running : BOOLEAN, primary : BOOLEAN,
          repos : BOOLEAN] : c.running => ~c.primary}

\* The instance sets a cluster can have: replicas 1..n.
ReplicaSets == {1..n : n \in 0..MaxReplicas}

\* A new upgrade, and a cluster that is absent or has never been touched by
\* this upgrade: its status version is unset or that of an earlier upgrade.
Init ==
  /\ upgrade \in [exists : {TRUE}, name : {UpgradeName}, from : Versions, to : Versions,
                  status : {NoConditions}]
  /\ cluster \in {c \in Clusters : c.statusVersion \in {0, c.specVersion} /\ c.repos}
                 \cup {NoCluster}
  /\ statefulsets \in IF cluster.exists THEN ReplicaSets ELSE {{}}
  /\ jobs \in [upgrade : {"Absent"}, removeData : {NoJobs.removeData},
               replicaCreate : IF cluster.exists THEN {{}, BackupJobIds} ELSE {{}}]
  /\ endpoints \in IF cluster.exists THEN {{}, EndpointIds} ELSE {{}}
  /\ upgradeJobCreates = 0
  /\ last = NoPass
  /\ OthersIdle

\* ------------------------------------------------------------ Reconcile
\* r.apply of a job: created when absent, patched otherwise.
apply(j) == IF j = "Absent" THEN "Active" ELSE j

\* The faults that can show in a pass whose outcome without a fault is out.
RelevantFaults(out, early) ==
  {f \in Faults :
     \/ f.kind = "patchUpgradeStatus"
     \/ f.kind = "observeWorld" /\ ~early
     \/ f.kind = "applyUpgradeJob" /\ out.calls.applyUpgradeJob
     \/ f.kind = "applyRemoveData" /\ f.at \in out.calls.applyRemoveData
     \/ f.kind = "deleteJob" /\ ReplicaCreateKey(f.at) \in out.calls.deleteJob
     \/ f.kind = "patchClusterStatus" /\ out.calls.patchClusterStatus
     \/ f.kind = "deleteEndpoints" /\ f.at \in out.calls.deleteEndpoints}

\* The jobs after the calls of a pass that succeeded; gone: the jobs deleted.
JobsAfter(calls, gone) ==
  [upgrade |-> IF UpgradeJobKey \in gone THEN "Absent"
               ELSE IF calls.upgradeJobApplied
               THEN apply(jobs.upgrade) ELSE jobs.upgrade,
   removeData |-> [r \in ReplicaIds |->
                     IF RemoveDataKey(r) \in gone THEN "Absent"
                     ELSE IF r \in calls.removeDataApplied
                     THEN apply(jobs.removeData[r])
                     ELSE jobs.removeData[r]],
   replicaCreate |-> {b \in jobs.replicaCreate :
                        ReplicaCreateKey(b) \notin gone}]

\* One pass of Reconcile in which the API calls fail as fs allows. c0: the
\* status read at the start; w0: the world as it is; out0: the outcome when no
\* call fails; out, d: the outcome and the deferred patch under fault f.
ReconcilePass(fs) ==
  \E c0 \in {upgrade.status} :
  \E early \in {~upgrade.exists \/ ReturnsBeforeObserve(upgrade, c0)} :
  \E w0 \in {IF early THEN NoWorld ELSE observeWorld} :
  \E counted \in RemoveDataCounts(w0) :
  \E out0 \in {ReconcileRequest(upgrade, c0, w0, NoFault, counted, {})} :
  \E f \in fs \cap ({NoFault, GetFault} \cup RelevantFaults(out0, early)) :
  \E pre \in IF f.kind = "deleteJob" THEN SUBSET out0.calls.deleteJob ELSE {{}} :
  \E w \in {IF f.kind = "observeWorld" \/ f = GetFault THEN NoWorld ELSE w0} :
  \E out \in {ReconcileRequest(upgrade, c0, w, f, counted, pre)} :
  \E d \in {DeferredStatusPatch(out, c0, f)} :
  \E gone \in {out.calls.jobsDeleted} :
  \E created \in {out.calls.upgradeJobApplied /\ jobs.upgrade = "Absent"} :
    /\ f = NoFault \/ d.statusPatch = "failed" \/ out # out0 \/ f.error = "NotFound"
    /\ upgrade' = [upgrade EXCEPT
                     !.status = IF d.statusPatch = "ok" THEN out.status ELSE c0]
    /\ jobs' = JobsAfter(out.calls, gone)
    /\ cluster' = IF out.calls.clusterStatusPatched
                  THEN [cluster EXCEPT !.statusVersion = upgrade.to,
                                       !.repos = FALSE]
                  ELSE cluster
    /\ endpoints' = endpoints \ out.calls.endpointsDeleted
    /\ upgradeJobCreates' =
         IF created /\ upgradeJobCreates < MaxCreates
         THEN upgradeJobCreates + 1 ELSE upgradeJobCreates
    /\ last' = [ran |-> TRUE, gate |-> out.gate, world |-> w, before |-> c0,
                status |-> out.status, result |-> out.result, err |-> d.err,
                calls |-> out.calls, statusPatch |-> d.statusPatch,
                created |-> created, fault |-> f.kind,
                faultError |-> f.error]
    /\ UNCHANGED <<statefulsets, others>>

\* A pass in which every API call succeeds.
Reconcile == ReconcilePass({NoFault})

\* A pass in which one API call fails.
ReconcileFails == ReconcilePass(Faults \ {NoFault})

\* A pass whose read of the upgrade fails.
ReconcileGetFails == ReconcilePass({GetFault})

\* ------------------------------------------------------- the environment
\* The job controller finishes a running job.
UpgradeJobFinishes(s) ==
  /\ jobs.upgrade = "Active"
  /\ jobs' = [jobs EXCEPT !.upgrade = s]
  /\ last' = NoPass
  /\ UNCHANGED <<upgrade, cluster, statefulsets, endpoints, upgradeJobCreates, others>>

RemoveDataJobFinishes(s) ==
  /\ \E r \in ReplicaIds :
       /\ jobs.removeData[r] = "Active"
       /\ jobs' = [jobs EXCEPT !.removeData[r] = s]
  /\ last' = NoPass
  /\ UNCHANGED <<upgrade, cluster, statefulsets, endpoints, upgradeJobCreates, others>>

UpgradeJobCompletes == UpgradeJobFinishes("Complete")
UpgradeJobFails == UpgradeJobFinishes("Failed")
RemoveDataJobCompletes == RemoveDataJobFinishes("Complete")
RemoveDataJobFails == RemoveDataJobFinishes("Failed")

\* An administrator edits the cluster: the allow-upgrade annotation, the
\* declared version, shutdown or start.
AdminAnnotates ==
  /\ cluster.exists
  /\ \E a \in AnnotationValues \ {cluster.annotation} :
       cluster' = [cluster EXCEPT !.annotation = a]
  /\ last' = NoPass
  /\ UNCHANGED <<upgrade, statefulsets, jobs, endpoints, upgradeJobCreates, others>>

AdminSetsVersion ==
  /\ cluster.exists
  /\ \E v \in ClusterVersions \ {cluster.specVersion} :
       cluster' = [cluster EXCEPT !.specVersion = v]
  /\ last' = NoPass
  /\ UNCHANGED <<upgrade, statefulsets, jobs, endpoints, upgradeJobCreates, others>>

AdminStartsOrStops ==
  /\ cluster.exists
  /\ cluster' = [cluster EXCEPT !.running = ~cluster.running, !.primary = FALSE]
  /\ last' = NoPass
  /\ UNCHANGED <<upgrade, statefulsets, jobs, endpoints, upgradeJobCreates, others>>

\* The cluster controller records the startup instance of a cluster that is
\* shut down, follows a change of the replica count with the instance
\* statefulsets, and starts replica-create backup jobs; a running Patroni
\* writes its endpoints.
RecordsStartupInstance ==
  /\ cluster.exists /\ ~cluster.running /\ ~cluster.primary
  /\ cluster' = [cluster EXCEPT !.primary = TRUE]
  /\ last' = NoPass
  /\ UNCHANGED <<upgrade, statefulsets, jobs, endpoints, upgradeJobCreates, others>>

ScalesInstances ==
  /\ cluster.exists
  /\ \E S \in ReplicaSets \ {statefulsets} : statefulsets' = S
  /\ last' = NoPass
  /\ UNCHANGED <<upgrade, cluster, jobs, endpoints, upgradeJobCreates, others>>

StartsReplicaCreate ==
  /\ cluster.exists /\ cluster.running
  /\ jobs.replicaCreate # BackupJobIds
  /\ jobs' = [jobs EXCEPT !.replicaCreate = BackupJobIds]
  /\ last' = NoPass
  /\ UNCHANGED <<upgrade, cluster, statefulsets, endpoints, upgradeJobCreates, others>>

PatroniWritesEndpoints ==
  /\ cluster.exists /\ cluster.running
  /\ endpoints # EndpointIds
  /\ endpoints' = EndpointIds
  /\ last' = NoPass
  /\ UNCHANGED <<upgrade, cluster, statefulsets, jobs, upgradeJobCreates, others>>

\* The upgrade is deleted; its jobs are collected in the background.
UpgradeDeleted ==
  /\ upgrade.exists
  /\ upgrade' = [upgrade EXCEPT !.exists = FALSE]
  /\ last' = NoPass
  /\ UNCHANGED <<cluster, statefulsets, jobs, endpoints, upgradeJobCreates, others>>

\* The cluster is deleted (its dependents are collected) or created.
ClusterDeleted ==
  /\ cluster.exists
  /\ cluster' = NoCluster
  /\ statefulsets' = {}
  /\ endpoints' = {}
  /\ jobs' = [jobs EXCEPT !.replicaCreate = {}]
  /\ last' = NoPass
  /\ UNCHANGED <<upgrade, upgradeJobCreates, others>>

ClusterCreated ==
  /\ ~cluster.exists
  /\ \E c \in Clusters :
       /\ c.statusVersion = 0 /\ c.running /\ c.repos /\ c.annotation = ""
       /\ cluster' = c
  /\ last' = NoPass
  /\ UNCHANGED <<upgrade, statefulsets, jobs, endpoints, upgradeJobCreates, others>>

\* ------------------------------------------------------- specifications
\* The reconciler, whose API calls succeed, in an arbitrary environment.
Next ==
  \/ Reconcile
  \/ UpgradeJobCompletes
  \/ UpgradeJobFails
  \/ RemoveDataJobCompletes
  \/ RemoveDataJobFails
  \/ AdminAnnotates
  \/ AdminSetsVersion
  \/ AdminStartsOrStops
  \/ RecordsStartupInstance
  \/ ScalesInstances
  \/ StartsReplicaCreate
  \/ PatroniWritesEndpoints
  \/ ClusterDeleted
  \/ ClusterCreated

Spec == Init /\ [][Next]_vars

\* The reconciler, whose API calls can fail, while the jobs run and nobody
\* edits the cluster.
FaultNext ==
  \/ Reconcile
  \/ ReconcileFails
  \/ UpgradeJobCompletes
  \/ UpgradeJobFails
  \/ RemoveDataJobCompletes
  \/ RemoveDataJobFails

FaultSpec == Init /\ [][FaultNext]_vars
\* The reconciler, whose API calls can fail, of an upgrade that can be
\* deleted.
DeleteNext ==
  \/ FaultNext
  \/ ReconcileGetFails
  \/ UpgradeDeleted

DeleteSpec == Init /\ [][DeleteNext]_vars

\* The happy path: an upgrade to a later version of a cluster that declares
\* the from version, is annotated with the name of the upgrade and is shut
\* down with its primary known; no job of the upgrade exists.
LiveInit ==
  /\ upgrade \in {u \in [exists : {TRUE}, name : {UpgradeName}, from : Versions, to : Versions,
                         status : {NoConditions}] : u.from < u.to}
  /\ cluster \in {c \in Clusters :
                    /\ c.specVersion = upgrade.from
                    /\ c.statusVersion \in {0, c.specVersion}
                    /\ c.annotation = UpgradeName
                    /\ ~c.running /\ c.primary /\ c.repos}
  /\ statefulsets \in ReplicaSets
  /\ jobs \in [upgrade : {"Absent"}, removeData : {NoJobs.removeData},
               replicaCreate : {{}, BackupJobIds}]
  /\ endpoints \in {{}, EndpointIds}
  /\ upgradeJobCreates = 0
  /\ last = NoPass
  /\ OthersIdle

\* The reconciler and the job controller, whose jobs complete.
LiveNext ==
  \/ Reconcile
  \/ ReconcileFails
  \/ UpgradeJobCompletes
  \/ RemoveDataJobCompletes

\* Every event and every error brings another pass, so a pass whose API calls
\* succeed comes in the end; every created job completes in the end.
LiveSpec ==
  /\ LiveInit
  /\ [][LiveNext]_vars
  /\ WF_vars(Reconcile)
  /\ WF_vars(UpgradeJobCompletes)
  /\ WF_vars(RemoveDataJobCompletes)

\* The happy path while the instances of the cluster are scaled: the number
\* of expected replicas can change after the remove-data jobs were created.
ScaleNext ==
  \/ LiveNext
  \/ ScalesInstances

ScaleSpec ==
  /\ LiveInit
  /\ [][ScaleNext]_vars
  /\ WF_vars(Reconcile)
  /\ WF_vars(UpgradeJobCompletes)
  /\ WF_vars(RemoveDataJobCompletes)

\* ------------------------------------------- the loop over the endpoints
\* The pass taken apart: the snapshot, then one delete for each endpoints
\* object of the snapshot, while the cluster is restarted and Patroni writes.
\* Here an endpoints object is a pair of its name and its resourceVersion; a
\* write gives the object the next revision of the API server, so the pair
\* tells apart every object and every version of it, as UID and
\* resourceVersion do. dcs.live holds the objects the running Patroni session
\* has written.
MaxRevision == 4

\* A pass has taken its snapshot and has deletes to make.
InFlight == last.gate = "Drive" /\ ~last.ran

\* A delete that names the object and carries no preconditions.
ByName(object, o) == o[1] = object[1]
\* client.Preconditions{UID, ResourceVersion}: the stored object is the one
\* of the snapshot.
Exactly(object, o) == o = object

CleanupInit ==
  /\ upgrade \in {u \in [exists : {TRUE}, name : {UpgradeName}, from : Versions, to : Versions,
                         status : {NoConditions}] : u.from < u.to}
  /\ cluster \in {c \in Clusters :
                    /\ c.specVersion = upgrade.from
                    /\ c.statusVersion \in {0, c.specVersion}
                    /\ c.annotation = UpgradeName
                    /\ c.repos}
  /\ statefulsets \in ReplicaSets
  /\ jobs = NoJobs
  /\ endpoints = {<<x, x>> : x \in EndpointIds}
  /\ dcs = [revision |-> MaxEndpoints,
            live |-> IF cluster.running THEN endpoints ELSE {}]
  /\ upgradeJobCreates = 0
  /\ last = NoPass
  /\ monitoring = NoMonitoring /\ pgbackrest = NoPGBackRest /\ ivory = NoIvory

\* A pass that does not reach the loop over the endpoints, or finds none.
ReconcileWithoutCleanup ==
  /\ ~InFlight
  /\ \A counted \in RemoveDataCounts(observeWorld) :
       ReconcileRequest(upgrade, upgrade.status, observeWorld, NoFault,
                        counted, {}).calls.deleteEndpoints = {}
  /\ Reconcile

\* A pass up to the loop over the endpoints it has observed.
ObservesEndpoints ==
  /\ ~InFlight
  /\ \E w \in {observeWorld} :
     \E counted \in RemoveDataCounts(w) :
     \E out \in {ReconcileRequest(upgrade, upgrade.status, w, NoFault, counted, {})} :
       /\ out.gate = "Drive"
       /\ w.PatroniEndpoints # {}
       /\ jobs' = JobsAfter(out.calls, {})
       /\ last' = [NoPass EXCEPT
                     !.gate = out.gate, !.world = w, !.before = upgrade.status,
                     !.status = out.status, !.result = out.result,
                     !.calls = [out.calls EXCEPT !.deleteEndpoints = {},
                                                 !.endpointsDeleted = {}],
                     !.created = out.calls.upgradeJobApplied /\ jobs.upgrade = "Absent"]
  /\ UNCHANGED <<upgrade, cluster, statefulsets, endpoints, upgradeJobCreates, others>>

\* One turn of the loop: the next object of the snapshot is deleted, unless
\* it is gone (NotFound, ignored) or is not as observed (Conflict). The error
\* of the turn replaces that of the turn before; after the last turn the
\* pass returns and the deferred patch writes the status.
DeleteObservedEndpoints ==
  /\ InFlight
  /\ \E object \in last.world.PatroniEndpoints \ last.calls.deleteEndpoints :
     \E matching \in {{o \in endpoints : Exactly(object, o)}} :
     \E e \in {IF matching # {} THEN "nil"
               ELSE IF \E o \in endpoints : o[1] = object[1]
               THEN "Conflict" ELSE "NotFound"} :
     \E done \in {last.calls.deleteEndpoints \cup {object} = last.world.PatroniEndpoints} :
       /\ \A o \in last.world.PatroniEndpoints \ last.calls.deleteEndpoints :
            object[1] <= o[1]
       /\ endpoints' = endpoints \ matching
       /\ dcs' = [dcs EXCEPT !.live = @ \ matching]
       /\ last' = [last EXCEPT
                     !.calls.deleteEndpoints = @ \cup {object},
                     !.calls.endpointsDeleted = @ \cup matching,
                     !.err = IF IgnoreNotFound(e) = "nil" THEN "nil"
                             ELSE "deleteEndpoints",
                     !.faultError = e,
                     !.ran = done,
                     !.statusPatch = IF done /\ last.status # last.before
                                     THEN "ok" ELSE "none"]
       /\ upgrade' = IF done THEN [upgrade EXCEPT !.status = last.status]
                     ELSE upgrade
  /\ UNCHANGED <<cluster, statefulsets, jobs, upgradeJobCreates,
                 monitoring, pgbackrest, ivory>>

\* The environment of the loop: the cluster is started or shut down, the
\* startup instance of a cluster shut down is recorded, and the running
\* Patroni writes an endpoints object, which gets the next revision.
ClusterRestarts ==
  /\ \/ /\ cluster' = [cluster EXCEPT !.running = ~cluster.running,
                                      !.primary = FALSE]
        /\ dcs' = [dcs EXCEPT !.live = {}]
        /\ UNCHANGED endpoints
     \/ /\ ~cluster.running /\ ~cluster.primary
        /\ cluster' = [cluster EXCEPT !.primary = TRUE]
        /\ UNCHANGED <<endpoints, dcs>>
     \/ /\ cluster.running
        /\ dcs.revision < MaxRevision
        /\ \E x \in EndpointIds :
           \E written \in {<<x, dcs.revision + 1>>} :
             /\ endpoints' = {o \in endpoints : o[1] # x} \cup {written}
             /\ dcs' = [revision |-> dcs.revision + 1,
                        live |-> {o \in dcs.live : o[1] # x} \cup {written}]
        /\ UNCHANGED cluster
  /\ UNCHANGED <<upgrade, statefulsets, jobs, upgradeJobCreates, last,
                 monitoring, pgbackrest, ivory>>

CleanupNext ==
  \/ ReconcileWithoutCleanup
  \/ ObservesEndpoints
  \/ DeleteObservedEndpoints
  \/ ClusterRestarts

CleanupSpec == CleanupInit /\ [][CleanupNext]_vars

\* ---------------------------------------------------- pgMonitor exporter
\* The upgrade controller at rest, while another reconciler is studied.
ControllerIdle ==
  /\ upgrade = [exists |-> TRUE, name |-> UpgradeName, from |-> 1, to |-> 1,
                status |-> NoConditions]
  /\ cluster = NoCluster
  /\ statefulsets = {}
  /\ jobs = NoJobs
  /\ endpoints = {}
  /\ upgradeJobCreates = 0
  /\ last = NoPass

MaxInstances == 2
InstanceIds == 1..MaxInstances

\* The ImageID of a container status; <<>> is the empty string.
ImageIDs == {<<>>, <<"a">>, <<"b">>}
Verifiers == {"v1", "v2"}

ContainerDatabase == "database"
ContainerPGMonitorExporter == "exporter"
exporterDB == "postgres"

\* cluster.Status.Monitoring.ExporterConfiguration of a new cluster: the
\* empty string.
NoRevision == <<>>

\* The observed instances: whether Patroni reports the instance as primary
\* and whether its database container is running.
Instances == [InstanceIds -> [primary : BOOLEAN, running : BOOLEAN]]

\* A selection that does not look at the database container.
writablePodAnyPrimary(instances) ==
  {i \in InstanceIds : instances[i].primary}
\* instances.writablePod(naming.ContainerDatabase): empty when it returns nil.
writablePod(instances) ==
  {i \in InstanceIds : instances[i].primary /\ instances[i].running}

ExporterEnabled(m) == m.enabled

\* writableInstance.IsRunning(naming.ContainerPGMonitorExporter)
ExporterNotRunning(m) == ~m.exporterRunning \/ ~m.exporterKnown

\* The image IDs read from the container statuses of the writable pod; they
\* are read only when the exporter is enabled.
pgImageSHA(m) == IF ExporterEnabled(m) THEN m.pgImageID ELSE <<>>
exporterImageSHA(m) == IF ExporterEnabled(m) THEN m.exporterImageID ELSE <<>>

\* The returns of reconcilePGMonitorExporter before the action is prepared.
ReturnsEarly(m) ==
  \/ writablePod(m.instances) = {}
  \/ /\ ExporterEnabled(m)
     /\ \/ ExporterNotRunning(m)
        \/ exporterImageSHA(m) = <<>>
        \/ pgImageSHA(m) = <<>>

\* The calls of the executor the two actions make: what they write to stdin
\* and the command.
EnableExporterInPostgreSQL(verifier, db, setup) ==
  << [stdin |-> <<"CREATE EXTENSION">>, command |-> <<"psql", "--all">>],
     [stdin |-> setup \o <<"ALTER ROLE LOGIN">>,
      command |-> <<"psql", db, verifier>>] >>

DisableExporterInPostgreSQL ==
  << [stdin |-> <<"ALTER ROLE NOLOGIN">>, command |-> <<"psql">>] >>

action(m, setup) ==
  IF ExporterEnabled(m)
  THEN EnableExporterInPostgreSQL(m.verifier, exporterDB, setup)
  ELSE DisableExporterInPostgreSQL

\* GetExporterSetupSQL: the setup.sql of the exporter image for the version.
GetExporterSetupSQL(version) == <<"setup.sql", version>>

\* What the executor given to safeHash32 writes to the hasher: for every
\* call its stdin, then fmt.Fprint of the command and of the two image IDs.
RECURSIVE Hashed(_, _, _)
Hashed(calls, pg, exporter) ==
  IF calls = <<>> THEN <<>>
  ELSE Head(calls).stdin \o <<"[">> \o Head(calls).command \o <<"]">>
         \o pg \o exporter \o Hashed(Tail(calls), pg, exporter)

\* The digest of what was written, taken as free of collisions.
safeHash32(content) == <<"sum32">> \o content

\* The revision: computed while the setup script is still the empty string.
Revision(m) ==
  safeHash32(Hashed(action(m, <<>>), pgImageSHA(m), exporterImageSHA(m)))

\* A reconciler that takes the configuration as out of date at every pass.
AlwaysOutOfDate(revision, recorded) == TRUE
OutOfDate(revision, recorded) == revision # recorded

\* A reconciler that records the revision whatever the action returned.
RecordedAlways(err, revision, recorded) == revision
\* cluster.Status.Monitoring.ExporterConfiguration after the action: the
\* revision if err == nil.
Recorded(err, revision, recorded) == IF err = "nil" THEN revision ELSE recorded

NoMonitorFault == [kind |-> "none", at |-> 0]
NoMonitorPass ==
  [ran |-> FALSE, returnedEarly |-> FALSE, podExec |-> <<>>, err |-> "nil",
   before |-> NoRevision, revision |-> NoRevision, fault |-> NoMonitorFault]

\* One pass of reconcilePGMonitorExporter over the inputs m; f is the PodExec
\* call that fails, if any.
reconcilePGMonitorExporter(m, f) ==
  LET revision == Revision(m)
      fetch == ExporterEnabled(m)
      setupErr == fetch /\ f.kind = "getSetup"
      setup == IF fetch THEN GetExporterSetupSQL(m.postgresVersion) ELSE <<>>
      calls == action(m, setup)
      failAt == IF f.kind = "exec" /\ f.at <= Len(calls) THEN f.at ELSE 0
      attempted == IF setupErr THEN 0
                   ELSE IF failAt > 0 THEN failAt ELSE Len(calls)
      podExec == (IF fetch THEN <<ContainerPGMonitorExporter>> ELSE <<>>)
                   \o [i \in 1..attempted |-> ContainerDatabase]
      err == IF setupErr THEN "getSetup" ELSE IF failAt > 0 THEN "exec" ELSE "nil"
      quiet == [NoMonitorPass EXCEPT !.ran = TRUE,
                                     !.before = m.ExporterConfiguration,
                                     !.fault = f]
  IN IF ReturnsEarly(m)
     THEN [m EXCEPT !.last = [quiet EXCEPT !.returnedEarly = TRUE]]
     ELSE IF ~OutOfDate(revision, m.ExporterConfiguration)
     THEN [m EXCEPT !.last = [quiet EXCEPT !.revision = revision]]
     ELSE [m EXCEPT
             !.ExporterConfiguration = Recorded(err, revision, @),
             !.last = [quiet EXCEPT !.revision = revision,
                                    !.podExec = podExec,
                                    !.err = err]]

MonitorFaults ==
  {[kind |-> "getSetup", at |-> 0]}
  \cup {[kind |-> "exec", at |-> k] :
         k \in 1..Len(EnableExporterInPostgreSQL("", exporterDB, <<>>))}

MonitorInit ==
  /\ ControllerIdle
  /\ pgbackrest = NoPGBackRest
  /\ ivory = NoIvory
  /\ dcs = NoDCS
  /\ monitoring \in
       [enabled : BOOLEAN, instances : Instances,
        exporterRunning : BOOLEAN, exporterKnown : BOOLEAN,
        pgImageID : ImageIDs, exporterImageID : ImageIDs,
        verifier : Verifiers, postgresVersion : Versions,
        ExporterConfiguration : {NoRevision}, last : {NoMonitorPass}]

\* A pass whose PodExec calls succeed.
ReconcilePGMonitorExporter ==
  /\ monitoring' = reconcilePGMonitorExporter(monitoring, NoMonitorFault)
  /\ UNCHANGED <<upgradeVars, pgbackrest, ivory, dcs>>

\* A pass one PodExec call of which fails.
ReconcilePGMonitorExporterFails ==
  /\ \E f \in MonitorFaults :
       /\ monitoring' = reconcilePGMonitorExporter(monitoring, f)
       /\ monitoring'.last.err # "nil"
  /\ UNCHANGED <<upgradeVars, pgbackrest, ivory, dcs>>

\* The environment of the exporter: the exporter is switched on or off, an
\* instance changes its role or its database container starts or stops, the
\* exporter container or the image IDs of the pod change, the monitoring
\* secret is rotated, the PostgreSQL version changes. Each change ends the
\* record of the last pass.
MonitoringInputChanges ==
  /\ \E m \in {[monitoring EXCEPT !.enabled = ~@]}
          \cup {[monitoring EXCEPT !.instances[i] = x] :
                 i \in InstanceIds, x \in [primary : BOOLEAN, running : BOOLEAN]}
          \cup {[monitoring EXCEPT !.exporterRunning = r, !.exporterKnown = k] :
                 r \in BOOLEAN, k \in BOOLEAN}
          \cup {[monitoring EXCEPT !.pgImageID = p, !.exporterImageID = e] :
                 p \in ImageIDs, e \in ImageIDs}
          \cup {[monitoring EXCEPT !.verifier = v] : v \in Verifiers}
          \cup {[monitoring EXCEPT !.postgresVersion = v] : v \in Versions} :
       /\ m # monitoring
       /\ monitoring' = [m EXCEPT !.last = NoMonitorPass]
  /\ UNCHANGED <<upgradeVars, pgbackrest, ivory, dcs>>

MonitorNext ==
  \/ ReconcilePGMonitorExporter
  \/ ReconcilePGMonitorExporterFails
  \/ MonitoringInputChanges

MonitorSpec == MonitorInit /\ [][MonitorNext]_vars

\* ------------------------------------------------ pgBackRest configuration
MaxRepos == 2
MaxHosts == 2
MaxOverrides == 2

RepoKinds == {"Volume", "Azure", "GCS", "S3"}

\* v1beta1.PGBackRestRepo: its name and the one backend that is set.
Repos == [Name : {"repo1", "repo2"}, Kind : RepoKinds]

\* The sequences over S of length at most n.
SeqsUpTo(S, n) == UNION {[1..k -> S] : k \in 0..n}

\* The orders in which a range over a Go map can yield its entries.
Orders(S) ==
  {o \in [1..Cardinality(S) -> S] : \A i, j \in DOMAIN o : i # j => o[i] # o[j]}

\* The inputs of the two populate functions: the repositories, the name of
\* the repository host (empty without one), the keys of the global
\* configuration of the cluster, the hosts.
PGBackRestInputValues ==
  [repos |-> SeqsUpTo(Repos, MaxRepos), repoHostName |-> {"", "repo-host"},
   globalConfig |-> {g \in SUBSET {"log-path", "repo1-path", "repo1-host"} :
                       Cardinality(g) <= MaxOverrides},
   pgHosts |-> SeqsUpTo({"h1", "h2"}, MaxHosts)]
PGBackRestInputs ==
  [repos : PGBackRestInputValues.repos,
   repoHostName : PGBackRestInputValues.repoHostName,
   globalConfig : PGBackRestInputValues.globalConfig,
   pgHosts : PGBackRestInputValues.pgHosts]

\* The map globalConfig: every key with the value the cluster declares.
GlobalConfig(in) == {<<k, "declared">> : k \in in.globalConfig}

\* A Set that keeps the value a key has already.
SetKeepsFirst(ms, name, value) ==
  IF \E i \in DOMAIN ms : ms[i].name = name
  THEN ms
  ELSE Append(ms, [name |-> name, values |-> <<value>>])
\* iniMultiSet.Set on a section kept as the sequence of its keys in the
\* order of their first insertion: the last write replaces the values.
Set(ms, name, value) ==
  IF \E i \in DOMAIN ms : ms[i].name = name
  THEN [i \in DOMAIN ms |->
          IF ms[i].name = name THEN [name |-> name, values |-> <<value>>]
          ELSE ms[i]]
  ELSE Append(ms, [name |-> name, values |-> <<value>>])

\* The calls Set(option, val) for a sequence of <<option, val>>, in order.
RECURSIVE SetEach(_, _)
SetEach(ms, options) ==
  IF options = <<>> THEN ms
  ELSE SetEach(Set(ms, Head(options)[1], Head(options)[2]), Tail(options))

\* A serialization that writes the keys in the order of their insertion.
StringInInsertionOrder(ms) == ms
\* iniMultiSet.String: the lines of a section. Their order in the text
\* depends on the keys alone, so the text is given by the set of its lines.
String(ms) == {<<ms[i].name, ms[i].values>> : i \in DOMAIN ms}

\* iniGeneratedWarning + iniSectionSet.String()
ConfigText(global, stanza) ==
  [warning |-> "# Generated by ivory-operator. DO NOT EDIT.",
   global |-> String(global), db |-> String(stanza)]

getExternalRepoConfigs(repo) ==
  CASE repo.Kind = "Azure" ->
         {<<repo.Name \o "-type", "azure">>,
          <<repo.Name \o "-azure-container", "container">>}
    [] repo.Kind = "GCS" ->
         {<<repo.Name \o "-type", "gcs">>,
          <<repo.Name \o "-gcs-bucket", "bucket">>}
    [] repo.Kind = "S3" ->
         {<<repo.Name \o "-type", "s3">>,
          <<repo.Name \o "-s3-bucket", "bucket">>,
          <<repo.Name \o "-s3-endpoint", "endpoint">>,
          <<repo.Name \o "-s3-region", "region">>}
    [] OTHER -> {}

\* host + "-0." + serviceName + "." + serviceNamespace + ".svc." + domain
FQDN(host) == host \o "-0.pods.ns.svc.cluster.local"

\* The index of the stanza keys of the host at index i of the range.
HostIndexOfRange(i) == i
HostIndex(i) == i + 1

\* The options the loop over repos sets in the global section of an
\* instance, from the i-th repository on; orders[i] is the order in which
\* the range over getExternalRepoConfigs(repos[i]) yields its entries.
RECURSIVE InstanceRepoOptions(_, _, _, _)
InstanceRepoOptions(repos, orders, repoHostName, i) ==
  IF i > Len(repos) THEN <<>>
  ELSE LET repo == repos[i]
           volume == repo.Kind = "Volume"
       IN <<<<repo.Name \o "-path", "/pgbackrest/" \o repo.Name>>>>
          \o (IF ~volume THEN orders[i] ELSE <<>>)
          \o (IF repoHostName # "" /\ volume
              THEN << <<repo.Name \o "-host", FQDN(repoHostName)>>,
                      <<repo.Name \o "-host-type", "tls">>,
                      <<repo.Name \o "-host-ca-file", "certAuthorityAbsolutePath">>,
                      <<repo.Name \o "-host-cert-file", "certClientAbsolutePath">>,
                      <<repo.Name \o "-host-key-file", "certClientPrivateKeyAbsolutePath">>,
                      <<repo.Name \o "-host-user", "ivory">> >>
              ELSE <<>>)
          \o InstanceRepoOptions(repos, orders, repoHostName, i + 1)

populatePGInstanceConfigurationMap(in, orders, globalOrder) ==
  ConfigText(
    SetEach(<<>>,
      << <<"log-path", "PGBackRestPGDataLogPath">> >>
      \o InstanceRepoOptions(in.repos, orders, in.repoHostName, 1)
      \o globalOrder),
    SetEach(<<>>,
      << <<"pg1-path", "pgdataDir">>, <<"pg1-port", "pgPort">>,
         <<"pg1-socket-path", "SocketDirectory">> >>))

\* A repository host that logs to every volume in turn, so to the last.
SetsLogPathAtEveryVolume(pgBackRestLogPathSet, volume) == volume
\* !pgBackRestLogPathSet && repo.Volume != nil
SetsLogPath(pgBackRestLogPathSet, volume) == ~pgBackRestLogPathSet /\ volume

\* The options the loop over repos sets in the global section of the
\* repository host, from the i-th repository on.
RECURSIVE RepoHostRepoOptions(_, _, _, _)
RepoHostRepoOptions(repos, orders, pgBackRestLogPathSet, i) ==
  IF i > Len(repos) THEN <<>>
  ELSE LET repo == repos[i]
           volume == repo.Kind = "Volume"
       IN <<<<repo.Name \o "-path", "/pgbackrest/" \o repo.Name>>>>
          \o (IF ~volume THEN orders[i] ELSE <<>>)
          \o (IF SetsLogPath(pgBackRestLogPathSet, volume)
              THEN << <<"log-path", "/pgbackrest/" \o repo.Name \o "/log">> >>
              ELSE <<>>)
          \o RepoHostRepoOptions(repos, orders, pgBackRestLogPathSet \/ volume, i + 1)

\* The options the loop over pgHosts sets in the stanza, from the host at
\* index i of the range on (the range counts from zero).
RECURSIVE HostOptions(_, _)
HostOptions(pgHosts, i) ==
  IF i >= Len(pgHosts) THEN <<>>
  ELSE LET pg == "pg" \o ToString(HostIndex(i))
       IN << <<pg \o "-host", FQDN(pgHosts[i + 1])>>,
             <<pg \o "-host-type", "tls">>,
             <<pg \o "-host-ca-file", "certAuthorityAbsolutePath">>,
             <<pg \o "-host-cert-file", "certClientAbsolutePath">>,
             <<pg \o "-host-key-file", "certClientPrivateKeyAbsolutePath">>,
             <<pg \o "-path", "pgdataDir">>,
             <<pg \o "-port", "pgPort">>,
             <<pg \o "-socket-path", "SocketDirectory">> >>
          \o HostOptions(pgHosts, i + 1)

populateRepoHostConfigurationMap(in, orders, globalOrder) ==
  ConfigText(
    SetEach(<<>>, RepoHostRepoOptions(in.repos, orders, FALSE, 1) \o globalOrder),
    SetEach(<<>>, HostOptions(in.pgHosts, 0)))

\* The orders the ranges over the maps of the repositories can take.
RECURSIVE RepoOrders(_)
RepoOrders(repos) ==
  IF repos = <<>> THEN {<<>>}
  ELSE {<<o>> \o os : o \in Orders(getExternalRepoConfigs(Head(repos))),
                      os \in RepoOrders(Tail(repos))}

\* Nothing generated yet.
NoConfigText == [warning |-> "", global |-> {}, db |-> {}]

PGBackRestInit ==
  /\ ControllerIdle
  /\ monitoring = NoMonitoring
  /\ ivory = NoIvory
  /\ dcs = NoDCS
  /\ pgbackrest \in [in : PGBackRestInputs, generated : {{}},
                     instance : {NoConfigText}, repoHost : {NoConfigText}]

\* CreatePGBackRestConfigMapIntent starts from an empty map and generates
\* the configuration of the instances first, the ranges over the maps taking
\* any order.
GenerateInstanceConfig ==
  /\ pgbackrest.generated # {"instance"}
  /\ \E orders \in RepoOrders(pgbackrest.in.repos) :
     \E globalOrder \in Orders(GlobalConfig(pgbackrest.in)) :
       pgbackrest' =
         [pgbackrest EXCEPT
            !.generated = {"instance"},
            !.instance = populatePGInstanceConfigurationMap(
                           pgbackrest.in, orders, globalOrder),
            !.repoHost = NoConfigText]
  /\ UNCHANGED <<upgradeVars, monitoring, ivory, dcs>>

\* ... and then that of the repository host.
GenerateRepoHostConfig ==
  /\ pgbackrest.generated = {"instance"}
  /\ \E orders \in RepoOrders(pgbackrest.in.repos) :
     \E globalOrder \in Orders(GlobalConfig(pgbackrest.in)) :
       pgbackrest' =
         [pgbackrest EXCEPT
            !.generated = {"instance", "repoHost"},
            !.repoHost = populateRepoHostConfigurationMap(
                           pgbackrest.in, orders, globalOrder)]
  /\ UNCHANGED <<upgradeVars, monitoring, ivory, dcs>>

\* The cluster is edited: its repositories, its repository host, its global
\* configuration or its hosts change.
PGBackRestInputChanges ==
  /\ \E field \in DOMAIN pgbackrest.in :
     \E value \in PGBackRestInputValues[field] :
     \E in \in {[pgbackrest.in EXCEPT ![field] = value]} :
       /\ in # pgbackrest.in
       /\ pgbackrest' = [in |-> in, generated |-> {},
                         instance |-> NoConfigText, repoHost |-> NoConfigText]
  /\ UNCHANGED <<upgradeVars, monitoring, ivory, dcs>>

PGBackRestNext ==
  \/ GenerateInstanceConfig
  \/ GenerateRepoHostConfig
  \/ PGBackRestInputChanges

PGBackRestSpec == PGBackRestInit /\ [][PGBackRestNext]_vars

\* ------------------------------------------------------------- huge pages
\* The IvorySQL parameters of a cluster: SetHugePages decides the parameter
\* huge_pages from the resource limits of the cluster's instance sets.
MaxInstanceSets == 2
MaxQuantity == 1

\* Resource names are spelled in pieces, so that a prefix is a prefix.
ResourceHugePagesPrefix == <<"hugepages", "-">>
ResourceNames == {<<"hugepages", "-", "2Mi">>, <<"memory">>}
HasPrefix(s, prefix) ==
  /\ Len(s) >= Len(prefix)
  /\ SubSeq(s, 1, Len(prefix)) = prefix

\* The instance sets a cluster can declare: limits over every resource name,
\* requests over the huge-pages names.
InstanceSets ==
  LET ResourceLists(names) == UNION {[S -> 0..MaxQuantity] : S \in SUBSET names}
  IN [Limits : ResourceLists(ResourceNames),
      Requests : ResourceLists({n \in ResourceNames :
                                  HasPrefix(n, ResourceHugePagesPrefix)})]

\* A quantity that asks for huge pages.
RequestedOrZero(resourceQuantity) == resourceQuantity >= 0
Requested(resourceQuantity) == resourceQuantity > 0

hugePagesRequested(instanceSets) ==
  \E i \in DOMAIN instanceSets :
    \E resourceName \in DOMAIN instanceSets[i].Limits :
      /\ HasPrefix(resourceName, ResourceHugePagesPrefix)
      /\ Requested(instanceSets[i].Limits[resourceName])

\* Parameters are pairs of a name and a value; adding one replaces the value
\* the name had.
SetHugePages(instanceSets, pgParameters) ==
  LET value == IF hugePagesRequested(instanceSets) THEN "try" ELSE "off"
  IN {p \in pgParameters : p[1] # "huge_pages"} \cup {<<"huge_pages", value>>}

HugePagesInit ==
  /\ ControllerIdle
  /\ monitoring = NoMonitoring
  /\ pgbackrest = NoPGBackRest
  /\ dcs = NoDCS
  /\ ivory = [instanceSets |-> <<>>, parameters |-> {}, set |-> FALSE]

\* The parameters of the cluster are computed.
SetHugePagesOfCluster ==
  /\ ivory' = [ivory EXCEPT !.parameters = SetHugePages(ivory.instanceSets, @),
                            !.set = TRUE]
  /\ UNCHANGED <<upgradeVars, monitoring, pgbackrest, dcs>>

\* The environment: the cluster's instance sets are edited, and the
\* parameters are computed afresh from then on.
InstanceSetsChange ==
  /\ \/ \E instance \in InstanceSets :
          /\ Len(ivory.instanceSets) < MaxInstanceSets
          /\ ivory' = [instanceSets |-> Append(ivory.instanceSets, instance),
                       parameters |-> {}, set |-> FALSE]
     \/ /\ ivory.instanceSets # <<>>
        /\ ivory' = [instanceSets |-> <<>>, parameters |-> {}, set |-> FALSE]
  /\ UNCHANGED <<upgradeVars, monitoring, pgbackrest, dcs>>

HugePagesNext ==
  \/ SetHugePagesOfCluster
  \/ InstanceSetsChange

HugePagesSpec == HugePagesInit /\ [][HugePagesNext]_vars

\* ------------------------------------------------------ monitoring secret
MaxPasswords == 2

\* The monitoring secret in the store: whether it exists and the two values
\* of its Data; <<>> is a value that is missing or empty.
NoSecret == [exists |-> FALSE, password |-> <<>>, verifier |-> <<>>]

\* The secrets the environment may leave in the store.
StoredSecrets ==
  {NoSecret} \cup [exists : {TRUE}, password : {<<>>, <<"password", 0>>},
                   verifier : {<<>>, <<"verifier", 0>>}]

NoSecretPass ==
  [ran |-> FALSE, before |-> NoSecret, deleteControlled |-> FALSE,
   generated |-> FALSE, apply |-> NoSecret, result |-> NoSecret,
   err |-> "nil", fault |-> "none"]

\* A reconciler that generates a password at every pass.
NeedsNewPasswordAlways(existing) == TRUE
\* len(existing.Data["password"]) == 0 || len(existing.Data["verifier"]) == 0
NeedsNewPassword(existing) ==
  Len(existing.password) = 0 \/ Len(existing.verifier) = 0

\* One pass of reconcileMonitoringSecret over the state m; f is the call
\* that fails, if any. The n-th password generated and the verifier built
\* from it are <<"password", n>> and <<"verifier", n>>. result is the secret
\* returned, NoSecret for nil; apply is the intent handed to r.apply.
reconcileMonitoringSecret(m, f) ==
  LET existing == m.secret
      generate == NeedsNewPassword(existing)
      n == m.generated + 1
      intent == IF generate
                THEN [exists |-> TRUE, password |-> <<"password", n>>,
                      verifier |-> <<"verifier", n>>]
                ELSE [exists |-> TRUE, password |-> existing.password,
                      verifier |-> existing.verifier]
      pass == [NoSecretPass EXCEPT !.ran = TRUE, !.before = existing, !.fault = f]
  IN IF f = "get" THEN [m EXCEPT !.last = [pass EXCEPT !.err = "get"]]
     ELSE IF ~ExporterEnabled(m)
     THEN IF ~existing.exists THEN [m EXCEPT !.last = pass]
          ELSE IF f = "delete"
          THEN [m EXCEPT !.last = [pass EXCEPT !.deleteControlled = TRUE,
                                               !.err = "delete"]]
          ELSE [m EXCEPT !.secret = NoSecret,
                         !.last = [pass EXCEPT !.deleteControlled = TRUE]]
     ELSE IF generate /\ f = "generate"
     THEN [m EXCEPT !.last = [pass EXCEPT !.err = "generate"]]
     ELSE IF f = "apply"
     THEN [m EXCEPT !.generated = IF generate THEN n ELSE @,
                    !.last = [pass EXCEPT !.generated = generate,
                                          !.apply = intent, !.err = "apply"]]
     ELSE [m EXCEPT !.secret = intent,
                    !.generated = IF generate THEN n ELSE @,
                    !.last = [pass EXCEPT !.generated = generate,
                                          !.apply = intent, !.result = intent]]

\* The calls that may fail: the Get of the secret with an error other than
\* not-found, the deletion with such an error, the deletion with not-found,
\* the generation of the password or of the verifier, the apply.
SecretFaults == {"get", "delete", "deleteNotFound", "generate", "apply"}

SecretInit ==
  /\ ControllerIdle
  /\ pgbackrest = NoPGBackRest
  /\ ivory = NoIvory
  /\ dcs = NoDCS
  /\ monitoring \in [enabled : BOOLEAN, secret : StoredSecrets,
                     generated : {0}, last : {NoSecretPass}]

\* A pass whose calls succeed.
ReconcileMonitoringSecret ==
  /\ NeedsNewPassword(monitoring.secret) => monitoring.generated < MaxPasswords
  /\ monitoring' = reconcileMonitoringSecret(monitoring, "none")
  /\ UNCHANGED <<upgradeVars, pgbackrest, ivory, dcs>>

\* A pass one call of which fails.
ReconcileMonitoringSecretFails ==
  /\ NeedsNewPassword(monitoring.secret) => monitoring.generated < MaxPasswords
  /\ \E f \in SecretFaults :
       /\ monitoring' = reconcileMonitoringSecret(monitoring, f)
       /\ \/ monitoring'.last.err # "nil"
          \/ f = "deleteNotFound" /\ monitoring'.last.deleteControlled
  /\ UNCHANGED <<upgradeVars, pgbackrest, ivory, dcs>>

\* The environment of the secret: the exporter is switched on or off, the
\* secret is deleted, replaced or stripped of a value. Each change ends the
\* record of the last pass.
MonitoringSecretChanges ==
  /\ \E m \in {[monitoring EXCEPT !.enabled = ~@]}
          \cup {[monitoring EXCEPT !.secret = s] : s \in StoredSecrets}
          \cup {[monitoring EXCEPT !.secret.password = <<>>],
                [monitoring EXCEPT !.secret.verifier = <<>>]} :
       /\ m # monitoring
       /\ m.secret.exists \/ m.secret = NoSecret
       /\ monitoring' = [m EXCEPT !.last = NoSecretPass]
  /\ UNCHANGED <<upgradeVars, pgbackrest, ivory, dcs>>

SecretNext ==
  \/ ReconcileMonitoringSecret
  \/ ReconcileMonitoringSecretFails
  \/ MonitoringSecretChanges

SecretSpec == SecretInit /\ [][SecretNext]_vars

\* ------------------------------------------------------------ properties
\* C1. Monotonic success: once the upgrade carries Succeeded with status
\* True, no step changes its status conditions, and every Reconcile pass on it
\* returns immediately: it observes nothing, makes no API call and returns no
\* error and no requeue, whatever the cluster, jobs or annotation have become.
C1_MonotonicSuccess ==
  [][upgrade.status.Succeeded.status = "True" =>
       /\ upgrade'.status = upgrade.status
       /\ upgrade.status.Succeeded.reason = "IvyUpgradeSucceeded"
       /\ last'.ran =>
            /\ last'.gate = "AlreadySucceeded"
            /\ ~last'.world.observed
            /\ last'.status = upgrade.status
            /\ last'.calls = NoCalls
            /\ last'.result = EmptyResult
            /\ last'.err = "nil"]_vars

\* A pass on a succeeded upgrade whose cluster has been deleted since.
C1_Witness ==
  /\ last.ran
  /\ last.before.Succeeded.status = "True"
  /\ last.status.Succeeded.status = "True"
  /\ ~cluster.exists

\* C2. Authorization gate: a pass on a valid upgrade whose observed cluster
\* does not carry the allow-upgrade annotation with the name of the upgrade
\* applies no job, deletes no endpoints and no job and does not patch the
\* cluster status; when no earlier outcome ends the pass (the cluster is shut
\* down with its primary known, declares the from version and does not run
\* the to version), it ends with Progressing False, reason
\* PGClusterMissingRequiredAnnotation.
C2_AuthorizationGate ==
  (/\ last.ran
   /\ upgrade.from < upgrade.to
   /\ last.world.observed
   /\ ~last.world.ClusterNotFound
   /\ last.world.Cluster.annotation # UpgradeName)
  => /\ last.calls = NoCalls
     /\ ~last.created
     /\ (/\ last.world.ClusterShutdown
         /\ last.world.ClusterPrimary
         /\ last.world.Cluster.specVersion = upgrade.from
         /\ last.world.Cluster.statusVersion # upgrade.to)
        => /\ last.status.Progressing.status = "False"
           /\ last.status.Progressing.reason = "PGClusterMissingRequiredAnnotation"

\* C2 as stated: every such pass ends with reason
\* PGClusterMissingRequiredAnnotation.
C2_EndsOnAnnotationAlways ==
  (/\ last.ran
   /\ upgrade.from < upgrade.to
   /\ last.world.observed
   /\ ~last.world.ClusterNotFound
   /\ last.world.Cluster.annotation # UpgradeName)
  => /\ last.calls = NoCalls
     /\ last.status.Progressing.status = "False"
     /\ last.status.Progressing.reason = "PGClusterMissingRequiredAnnotation"

\* A pass that stops at the annotation after the upgrade job has completed:
\* the annotation has been taken away in the middle of the upgrade.
C2_Witness ==
  /\ last.ran
  /\ last.world.Cluster.annotation # UpgradeName
  /\ last.world.Jobs.upgrade = "Complete"
  /\ last.status.Progressing.reason = "PGClusterMissingRequiredAnnotation"

\* C3. At-most-once job creation: at most one upgrade job is ever created; a
\* pass that finds the upgrade job creates none, and no pass deletes it.
C3_AtMostOneUpgradeJob ==
  /\ upgradeJobCreates <= 1
  /\ last.ran =>
       /\ UpgradeJobKey \notin last.calls.deleteJob
       /\ last.world.Jobs.upgrade # "Absent" => ~last.created
       /\ last.world.Jobs.upgrade # "Absent" => jobs.upgrade = last.world.Jobs.upgrade

\* A pass through the ensure step that applies the upgrade job a second
\* time: the job is there and running.
C3_Witness ==
  /\ last.ran
  /\ last.calls.upgradeJobApplied
  /\ last.world.Jobs.upgrade = "Active"
  /\ upgradeJobCreates = 1

\* C4. Happy path liveness: from the happy path, with passes re-run and jobs
\* completing, a pass that finds no upgrade job applies it and so creates it;
\* after its completion there comes one remove-data job per replica, and no
\* other; the cluster status version becomes the to version only after the
\* upgrade job and those jobs are complete, and in the end it is the to
\* version and the upgrade has Succeeded True, for good.
C4_HappyPath ==
  /\ [](last.ran /\ last.world.observed /\ last.world.Jobs.upgrade = "Absent"
          => /\ last.calls.applyUpgradeJob
             /\ last.calls.upgradeJobApplied => last.created /\ jobs.upgrade = "Active")
  /\ <>(upgradeJobCreates = 1)
  /\ (jobs.upgrade = "Complete")
       ~> (\A r \in statefulsets : jobs.removeData[r] # "Absent")
  /\ [](\A r \in ReplicaIds :
          jobs.removeData[r] # "Absent" => r \in statefulsets /\ jobs.upgrade = "Complete")
  /\ [](cluster.statusVersion = upgrade.to
          => /\ jobs.upgrade = "Complete"
             /\ \A r \in statefulsets : jobs.removeData[r] = "Complete")
  /\ <>[](/\ cluster.statusVersion = upgrade.to
          /\ upgrade.status.Succeeded.status = "True"
          /\ upgrade.status.Progressing.reason = "IvyUpgradeCompleted")

\* The upgrade of a cluster with replicas has succeeded.
C4_Witness ==
  /\ statefulsets = ReplicaIds
  /\ \A r \in ReplicaIds : jobs.removeData[r] = "Complete"
  /\ cluster.statusVersion = upgrade.to
  /\ upgrade.status.Succeeded.status = "True"
  /\ last.ran /\ last.gate = "IvyUpgradeCompleted"

\* C5. Invalid request: a pass on an upgrade with from >= to that has not
\* succeeded ends with Progressing False, reason IvyUpgradeInvalid, before the
\* cluster is observed; it makes no API call besides the patch of the upgrade
\* status and asks for no requeue; it returns no error unless that patch
\* fails, and then the error of the patch.
C5_InvalidRequest ==
  (/\ last.ran
   /\ upgrade.from >= upgrade.to
   /\ last.before.Succeeded.status # "True")
  => /\ last.status.Progressing.status = "False"
     /\ last.status.Progressing.reason = "IvyUpgradeInvalid"
     /\ ~last.world.observed
     /\ last.calls = NoCalls
     /\ ~last.created
     /\ last.result = EmptyResult
     /\ last.statusPatch # "failed" =>
          /\ last.err = "nil"
          /\ upgrade.status = last.status
     /\ last.statusPatch = "failed" => last.err = "patchUpgradeStatus"

\* C5 as stated: such a pass returns no error.
C5_NeverAnError ==
  (/\ last.ran
   /\ upgrade.from >= upgrade.to
   /\ last.before.Succeeded.status # "True")
  => /\ last.status.Progressing.reason = "IvyUpgradeInvalid"
     /\ last.calls = NoCalls
     /\ last.result = EmptyResult
     /\ last.err = "nil"

\* A pass on an invalid upgrade whose status patch fails.
C5_Witness ==
  /\ last.ran
  /\ upgrade.from >= upgrade.to
  /\ last.status.Progressing.reason = "IvyUpgradeInvalid"
  /\ last.statusPatch = "failed"

\* C6. No-op resolution: a pass that observes a cluster declaring the to
\* version and an upgrade job that is not complete ends with Progressing
\* False, reason IvyUpgradeResolved, makes no API call on jobs, endpoints or
\* cluster, and leaves the Succeeded condition as it was, which is not True.
\* It holds of every pass, so of every later one while the declared version
\* stays and the job does not complete.
C6_NoOpResolution ==
  (/\ last.ran
   /\ last.world.observed
   /\ ~last.world.ClusterNotFound
   /\ last.world.Cluster.specVersion = upgrade.to
   /\ last.world.Jobs.upgrade # "Complete")
  => /\ last.status.Progressing.status = "False"
     /\ last.status.Progressing.reason = "IvyUpgradeResolved"
     /\ last.calls = NoCalls
     /\ ~last.created
     /\ last.status.Succeeded = last.before.Succeeded
     /\ last.status.Succeeded.status # "True"
     /\ jobs = last.world.Jobs

\* The declared version is set to the to version while the upgrade job runs.
C6_Witness ==
  /\ last.ran
  /\ last.world.Cluster.specVersion = upgrade.to
  /\ last.world.Jobs.upgrade = "Active"
  /\ last.status.Progressing.reason = "IvyUpgradeResolved"

\* C7. Short-circuit success: a pass on a valid upgrade that finds the
\* cluster running the to version ends with Progressing False, reason
\* IvyUpgradeCompleted, unless the cluster also declares the to version while
\* the upgrade job is not complete (the no-op resolution comes first).
C7_ShortCircuitSuccess ==
  (/\ last.ran
   /\ upgrade.from < upgrade.to
   /\ last.world.observed
   /\ ~last.world.ClusterNotFound
   /\ last.world.Cluster.statusVersion = upgrade.to
   /\ (\/ last.world.Cluster.specVersion # upgrade.to
       \/ last.world.Jobs.upgrade = "Complete"))
  => /\ last.status.Progressing.status = "False"
     /\ last.status.Progressing.reason = "IvyUpgradeCompleted"
     /\ last.calls = NoCalls
     /\ last.err = "nil"

\* C7 as stated: every pass that finds the cluster running the to version
\* reports Completed.
C7_CompletedAlways ==
  (/\ last.ran
   /\ upgrade.from < upgrade.to
   /\ last.world.observed
   /\ ~last.world.ClusterNotFound
   /\ last.world.Cluster.statusVersion = upgrade.to)
  => /\ last.status.Progressing.status = "False"
     /\ last.status.Progressing.reason = "IvyUpgradeCompleted"

\* A pass that reports Completed and not Succeeded: the cluster runs the to
\* version and a remove-data job is still running.
C7_Witness ==
  /\ last.ran
  /\ last.world.Cluster.statusVersion = upgrade.to
  /\ last.status.Progressing.reason = "IvyUpgradeCompleted"
  /\ last.status.Succeeded.status # "True"
  /\ \E r \in ReplicaIds : last.world.Jobs.removeData[r] = "Active"

\* C8. Succeeded True is written only by a pass whose snapshot shows the
\* cluster status version at the to version, the upgrade job complete and as
\* many completed remove-data jobs as replicas expected.
C8_SucceededOnlyWhenDone ==
  (/\ last.ran
   /\ last.status.Succeeded.status = "True"
   /\ last.before.Succeeded.status # "True")
  => /\ last.world.Cluster.statusVersion = upgrade.to
     /\ last.world.Jobs.upgrade = "Complete"
     /\ Cardinality({r \in ReplicaIds : last.world.Jobs.removeData[r] = "Complete"})
          = last.world.ReplicasExpected

\* C9. Failure propagation: a pass that observes a failed upgrade job or a
\* failed remove-data job applies no job; when it gets to the check of the
\* jobs (cluster shut down with its primary known, declaring the from version
\* and not running the to version, annotated with the name of the upgrade) it
\* sets Succeeded False, reason IvyUpgradeFailed, and returns without an API
\* call, an error or a requeue. The failed job stays as it is.
C9_FailurePropagation ==
  (/\ last.ran
   /\ last.world.observed
   /\ \/ last.world.Jobs.upgrade = "Failed"
      \/ \E r \in ReplicaIds : last.world.Jobs.removeData[r] = "Failed")
  => /\ ~last.calls.applyUpgradeJob
     /\ last.calls.applyRemoveData = {}
     /\ ~last.created
     /\ jobs.upgrade = last.world.Jobs.upgrade
     /\ jobs.removeData = last.world.Jobs.removeData
     /\ (/\ last.world.ClusterShutdown
         /\ last.world.ClusterPrimary
         /\ last.world.Cluster.specVersion = upgrade.from
         /\ last.world.Cluster.statusVersion # upgrade.to
         /\ last.world.Cluster.annotation = UpgradeName)
        => /\ last.status.Succeeded.status = "False"
           /\ last.status.Succeeded.reason = "IvyUpgradeFailed"
           /\ last.calls = NoCalls
           /\ last.result = EmptyResult
           /\ last.err = "nil"

\* A pass that meets a failed remove-data job next to a completed upgrade job.
C9_Witness ==
  /\ last.ran
  /\ last.world.Jobs.upgrade = "Complete"
  /\ \E r \in ReplicaIds : last.world.Jobs.removeData[r] = "Failed"
  /\ last.status.Succeeded.reason = "IvyUpgradeFailed"
  /\ upgrade.status.Succeeded.status = "False"

\* C10. Terminal outcomes are quiet: a pass that ends on an invalid request,
\* on a missing annotation or on a failed job returns no error and a result
\* with neither Requeue nor RequeueAfter, provided the patch of the upgrade
\* status does not fail.
C10_TerminalOutcomesQuiet ==
  (/\ last.ran
   /\ last.gate \in {"IvyUpgradeInvalid", "PGClusterMissingRequiredAnnotation",
                     "IvyUpgradeFailed"}
   /\ last.statusPatch # "failed")
  => /\ last.err = "nil"
     /\ last.result.Requeue = FALSE
     /\ last.result.RequeueAfter = 0
     /\ last.calls = NoCalls

\* A pass that ends on a failed job and whose status patch succeeds.
C10_Witness ==
  /\ last.ran
  /\ last.gate = "IvyUpgradeFailed"
  /\ last.world.Jobs.upgrade = "Failed"
  /\ last.statusPatch = "ok"
  /\ last.err = "nil"

\* C11. Shutdown precondition: a pass on a valid upgrade that finds the
\* cluster not shut down, or without a primary, and is not ended by an earlier
\* outcome (resolved, completed) sets Progressing False, reason
\* PGClusterNotShutdown, makes no other API call and returns an empty result:
\* no requeue; its error is nil unless the patch of the upgrade status fails.
C11_ShutdownPrecondition ==
  (/\ last.ran
   /\ last.world.observed
   /\ ~last.world.ClusterNotFound
   /\ ~(last.world.Cluster.specVersion = upgrade.to /\ last.world.Jobs.upgrade # "Complete")
   /\ last.world.Cluster.statusVersion # upgrade.to
   /\ ~last.world.ClusterShutdown \/ ~last.world.ClusterPrimary)
  => /\ last.status.Progressing.status = "False"
     /\ last.status.Progressing.reason = "PGClusterNotShutdown"
     /\ last.calls = NoCalls
     /\ last.result = EmptyResult
     /\ last.statusPatch # "failed" => last.err = "nil" /\ upgrade.status = last.status
     /\ last.statusPatch = "failed" => last.err = "patchUpgradeStatus"

\* C11 as stated: such a pass returns an error or asks for a requeue.
C11_RetriesWithBackoff ==
  (/\ last.ran
   /\ last.world.observed
   /\ ~last.world.ClusterNotFound
   /\ ~(last.world.Cluster.specVersion = upgrade.to /\ last.world.Jobs.upgrade # "Complete")
   /\ last.world.Cluster.statusVersion # upgrade.to
   /\ ~last.world.ClusterShutdown \/ ~last.world.ClusterPrimary)
  => /\ last.status.Progressing.reason = "PGClusterNotShutdown"
     /\ \/ last.err # "nil"
        \/ last.result.Requeue
        \/ last.result.RequeueAfter > 0

\* A pass on a cluster that is shut down and whose primary is not known yet.
C11_Witness ==
  /\ last.ran
  /\ last.world.ClusterShutdown
  /\ ~last.world.ClusterPrimary
  /\ last.status.Progressing.reason = "PGClusterNotShutdown"
  /\ last.statusPatch = "ok"
  /\ last.err = "nil"

\* C12. Not-found is not an error: a pass that finds the upgrade gone returns
\* an empty result and nil, patches no status and makes no API call; a pass
\* that finds the cluster gone sets Progressing False, reason
\* PGClusterNotFound, creates and deletes nothing and returns an empty result;
\* its error is nil unless the patch of the upgrade status fails.
C12_NotFoundIsNotAnError ==
  /\ (last.ran /\ ~upgrade.exists /\ last.fault = "none")
     => /\ last.result = EmptyResult
        /\ last.err = "nil"
        /\ last.calls = NoCalls
        /\ last.statusPatch = "none"
        /\ ~last.world.observed
        /\ upgrade.status = last.before
  /\ (last.ran /\ last.world.observed /\ last.world.ClusterNotFound)
     => /\ last.status.Progressing.status = "False"
        /\ last.status.Progressing.reason = "PGClusterNotFound"
        /\ last.calls = NoCalls
        /\ ~last.created
        /\ last.result = EmptyResult
        /\ last.statusPatch # "failed" => last.err = "nil" /\ upgrade.status = last.status
        /\ last.statusPatch = "failed" => last.err = "patchUpgradeStatus"

\* C12 as stated: both passes return nil.
C12_AlwaysNil ==
  /\ (last.ran /\ ~upgrade.exists /\ last.fault = "none")
     => last.result = EmptyResult /\ last.err = "nil"
  /\ (last.ran /\ last.world.observed /\ last.world.ClusterNotFound)
     => /\ last.status.Progressing.reason = "PGClusterNotFound"
        /\ last.result = EmptyResult
        /\ last.err = "nil"

\* A pass on an upgrade that was deleted while its upgrade job runs.
C12_Witness ==
  /\ last.ran
  /\ ~upgrade.exists
  /\ last.fault = "none"
  /\ jobs.upgrade = "Active"
  /\ last.err = "nil"

\* C13. Status-patch discipline: whatever the way a pass returns, it issues
\* the one patch of the upgrade status if and only if the conditions it ends
\* with differ from those it read; the stored conditions are those the pass
\* ends with when the patch succeeds and those it read otherwise.
C13_StatusPatchDiscipline ==
  last.ran =>
    /\ last.statusPatch = "none" <=> last.status = last.before
    /\ last.statusPatch = "ok" => upgrade.status = last.status
    /\ last.statusPatch # "ok" => upgrade.status = last.before

\* A pass that returns the error of observeWorld and patches the status.
C13_Witness ==
  /\ last.ran
  /\ last.err = "observeWorld"
  /\ last.status # last.before
  /\ last.statusPatch = "ok"
  /\ upgrade.status.Progressing.reason = "PGClusterErrorWhenObservingWorld"

\* C14. Precondition races on delete are swallowed: when the deletion of a
\* replica-create job in the completion fan-out, or of a Patroni endpoints
\* object, fails because the object was concurrently modified (Conflict) or
\* already deleted (NotFound), the pass does not surface an error.
C14_DeleteRacesSwallowed ==
  (last.ran /\ last.fault \in {"deleteJob", "deleteEndpoints"}
            /\ last.faultError \in DeleteErrors)
    => last.err = "nil"

\* The part that holds of the code: an object already deleted is ignored,
\* and the pass goes on as if the deletion had succeeded.
C14_AlreadyDeletedIgnored ==
  (last.ran /\ last.fault \in {"deleteJob", "deleteEndpoints"}
            /\ last.faultError = "NotFound")
    => /\ last.err = "nil"
       /\ last.fault = "deleteJob" => last.calls.clusterStatusPatched
       /\ last.fault = "deleteEndpoints" => last.result.Requeue

C14_Witness ==
  /\ last.ran /\ last.fault = "deleteJob" /\ last.faultError = "Conflict"
  /\ last.err = "deleteJob"
  /\ ~last.calls.patchClusterStatus

C14_WitnessEndpoints ==
  /\ last.ran /\ last.fault = "deleteEndpoints" /\ last.faultError = "Conflict"
  /\ last.err = "deleteEndpoints"
  /\ last.result.Requeue


\* C15. Every gate that stops a pass (invalid, observe error, cluster not
\* found, resolved no-op, completed, not shut down, version mismatch, missing
\* annotation, job failure) writes a Progressing condition whose reason is
\* that of no other gate, so that the Progressing reason identifies the gate
\* that stopped the last pass.
ProgressingGates ==
  {"IvyUpgradeInvalid", "PGClusterErrorWhenObservingWorld", "PGClusterNotFound",
   "IvyUpgradeResolved", "IvyUpgradeCompleted", "PGClusterNotShutdown",
   "IvyUpgradeInvalidForCluster", "PGClusterMissingRequiredAnnotation"}

StoppingGates == ProgressingGates \cup {"IvyUpgradeFailed"}

\* As claimed: the job-failure gate included.
C15_EveryGateWritesProgressing ==
  (last.ran /\ last.gate \in StoppingGates)
    => /\ last.status.Progressing # NoCondition
       /\ last.status.Progressing.status = "False"
       /\ last.status.Progressing.reason = last.gate

\* As the code has it: the eight gates before the job-failure gate write
\* Progressing=False with their own reason; the job-failure gate writes
\* Succeeded=False, reason IvyUpgradeFailed, and leaves Progressing as the
\* refreshes left it, which is never a reason of its own.
C15_GateReasons ==
  /\ (last.ran /\ last.gate \in ProgressingGates)
       => /\ last.status.Progressing # NoCondition
          /\ last.status.Progressing.status = "False"
          /\ last.status.Progressing.reason = last.gate
  /\ (last.ran /\ last.gate = "IvyUpgradeFailed")
       => /\ last.status.Succeeded # NoCondition
          /\ last.status.Succeeded.status = "False"
          /\ last.status.Succeeded.reason = "IvyUpgradeFailed"
          /\ last.status.Progressing # NoCondition
          /\ last.status.Progressing.reason \notin {"IvyUpgradeFailed"}

C15_Witness ==
  /\ last.ran /\ last.gate = "IvyUpgradeFailed"
  /\ last.status.Succeeded.reason = "IvyUpgradeFailed"
  /\ last.status.Progressing.reason = "IvyUpgradeProgressing"
  /\ last.before.Progressing # NoCondition
  /\ last.before.Progressing.reason = "PGClusterMissingRequiredAnnotation"


\* C16. Progressing refresh rule: within a pass Progressing becomes True,
\* reason IvyUpgradeProgressing, only if it was absent or its previous reason
\* is that of a gate the pass has just passed; a Progressing=False condition
\* with the reason of another gate is left untouched by the refreshes; and
\* over an unchanged world a second pass leaves the Progressing condition
\* as the first left it (no flapping).
\* The reasons refreshed before the pass returns at gate g.
RefreshedBefore(g) ==
  LET r1 == {""}
      r2 == r1 \cup {"IvyUpgradeInvalid"}
      r3 == r2 \cup {"PGClusterErrorWhenObservingWorld"}
      r4 == r3 \cup {"PGClusterNotFound"}
      r5 == r4 \cup {"IvyUpgradeResolved"}
      r6 == r5 \cup {"PGClusterNotShutdown"}
      r7 == r6 \cup {"IvyUpgradeInvalidForCluster"}
      r8 == r7 \cup {"PGClusterMissingRequiredAnnotation"}
  IN CASE g = "IvyUpgradeInvalid" -> r1
       [] g = "PGClusterErrorWhenObservingWorld" -> r2
       [] g = "PGClusterNotFound" -> r3
       [] g = "IvyUpgradeResolved" -> r4
       [] g \in {"IvyUpgradeCompleted", "PGClusterNotShutdown"} -> r5
       [] g = "IvyUpgradeInvalidForCluster" -> r6
       [] g = "PGClusterMissingRequiredAnnotation" -> r7
       [] g \in {"IvyUpgradeFailed", "FanOut", "Drive"} -> r8
       [] OTHER -> {}

C16_RefreshOnlyResolved ==
  LET was == last.before.Progressing
      is == last.status.Progressing
  IN last.ran =>
       /\ (is # was /\ is.status = "True")
            => /\ is.reason = "IvyUpgradeProgressing"
               /\ was = NoCondition \/ was.reason \in RefreshedBefore(last.gate)
       /\ (was # NoCondition /\ was.reason \notin RefreshedBefore(last.gate)
             /\ last.gate \notin ProgressingGates)
            => is = was

C16_NoFlapping ==
  (last.ran /\ last'.ran /\ last'.world = last.world
     /\ last'.fault = last.fault /\ last'.faultError = last.faultError)
    => last'.status.Progressing = last.status.Progressing

C16_ProgressingRefreshRule ==
  [][C16_RefreshOnlyResolved' /\ C16_NoFlapping]_vars

\* A second pass over the same world, after a pass that moved the upgrade
\* forward with the stale reason of the completed gate left in place.
C16_Witness ==
  /\ last.ran /\ last.gate = "Drive"
  /\ last.before = last.status
  /\ last.status.Progressing.status = "False"
  /\ last.status.Progressing.reason = "IvyUpgradeCompleted"

C16_WitnessRefreshed ==
  /\ last.ran /\ last.gate = "Drive"
  /\ last.before.Progressing.reason = "PGClusterNotShutdown"
  /\ last.status.Progressing.status = "True"


\* C17. Change-aware SQL execution: reconcilePGMonitorExporter makes PodExec
\* calls only in a pass whose revision hash differs from the recorded
\* cluster.Status.Monitoring.ExporterConfiguration; a pass that succeeds
\* records the revision, and the pass that follows it over unchanged inputs
\* and images makes no PodExec call.
C17_ExecOnlyWhenOutOfDate ==
  monitoring.last.ran =>
    /\ monitoring.last.podExec # <<>>
         => /\ monitoring.last.revision = Revision(monitoring)
            /\ monitoring.last.revision # monitoring.last.before
    /\ (monitoring.last.podExec # <<>> /\ monitoring.last.err = "nil")
         => monitoring.ExporterConfiguration = Revision(monitoring)

C17_SecondPassQuiet ==
  (monitoring.last.ran /\ monitoring.last.err = "nil" /\ monitoring'.last.ran)
    => monitoring'.last.podExec = <<>>

C17_ChangeAwareExecution ==
  [][C17_ExecOnlyWhenOutOfDate' /\ C17_SecondPassQuiet]_vars

\* The second pass, after a pass that executed the action.
C17_Witness ==
  /\ monitoring.last.ran
  /\ monitoring.enabled
  /\ ~monitoring.last.returnedEarly
  /\ monitoring.last.podExec = <<>>
  /\ monitoring.last.before = Revision(monitoring)
  /\ monitoring.ExporterConfiguration # NoRevision

\* C18. Writable-instance skip: when no instance is both primary and running
\* its database container, or when the exporter is enabled while its
\* container is not known to be running or one of the two image IDs is
\* unknown, reconcilePGMonitorExporter makes no PodExec call, leaves
\* cluster.Status.Monitoring.ExporterConfiguration as it was and returns nil.
C18_WritableInstanceSkip ==
  LET m == monitoring
      none == \A i \in InstanceIds :
                ~(m.instances[i].primary /\ m.instances[i].running)
      notReady == /\ m.enabled
                  /\ \/ ~(m.exporterRunning /\ m.exporterKnown)
                     \/ m.pgImageID = <<>>
                     \/ m.exporterImageID = <<>>
  IN (m.last.ran /\ (none \/ notReady))
       => /\ m.last.podExec = <<>>
          /\ m.ExporterConfiguration = m.last.before
          /\ m.last.err = "nil"

\* A pass skipped for want of a writable instance, although a revision
\* other than the recorded one was due.
C18_Witness ==
  /\ monitoring.last.ran
  /\ monitoring.last.returnedEarly
  /\ writablePod(monitoring.instances) = {}
  /\ \E i \in InstanceIds : monitoring.instances[i].primary
  /\ monitoring.ExporterConfiguration # NoRevision
  /\ monitoring.ExporterConfiguration # Revision(monitoring)


LineKeys(lines) == {l[1] : l \in lines}

\* C20. Index invariant: the stanza of the instance configuration holds
\* exactly the keys pg1-path, pg1-port and pg1-socket-path, whatever the
\* repositories; the stanza keys of the repo-host configuration use exactly
\* the indices 1..Len(pgHosts), index i belonging to the i-th host of the
\* list, and no host gives an empty stanza.
C20_IndexInvariant ==
  pgbackrest.generated = {"instance", "repoHost"} =>
    LET hosts == pgbackrest.in.pgHosts
        HostKeys(i) ==
          {"pg" \o ToString(i) \o k :
             k \in {"-host", "-host-type", "-host-ca-file", "-host-cert-file",
                    "-host-key-file", "-path", "-port", "-socket-path"}}
    IN /\ LineKeys(pgbackrest.instance.db) = {"pg1-path", "pg1-port", "pg1-socket-path"}
       /\ LineKeys(pgbackrest.repoHost.db) = UNION {HostKeys(i) : i \in 1..Len(hosts)}
       /\ \A i \in 1..Len(hosts) :
            <<"pg" \o ToString(i) \o "-host", <<FQDN(hosts[i])>>>> \in pgbackrest.repoHost.db
       /\ hosts = <<>> => pgbackrest.repoHost.db = {}

C20_Witness ==
  /\ pgbackrest.generated = {"instance", "repoHost"}
  /\ pgbackrest.in.pgHosts = <<"h2", "h1">>
  /\ Len(pgbackrest.in.repos) = MaxRepos
  /\ pgbackrest.in.repos[1].Kind = "S3"
  /\ <<"pg2-host", <<FQDN("h1")>>>> \in pgbackrest.repoHost.db


\* C21. First-volume-wins: in the repo-host configuration the global
\* log-path is the log path of the first repository of the list that is a
\* volume, never that of a later one, and a list without a volume gives no
\* log-path key.
\* As claimed: whatever the global configuration of the cluster declares.
C21_FirstVolumeAlways ==
  "repoHost" \in pgbackrest.generated =>
    LET repos == pgbackrest.in.repos
        volumes == {i \in DOMAIN repos : repos[i].Kind = "Volume"}
        first == CHOOSE i \in volumes : \A j \in volumes : i <= j
        logPaths == {l \in pgbackrest.repoHost.global : l[1] = "log-path"}
    IN IF volumes = {} THEN logPaths = {}
       ELSE logPaths = {<<"log-path", <<"/pgbackrest/" \o repos[first].Name \o "/log">>>>}

\* As the code has it: the global configuration is set after the loop over
\* the repositories, so a log-path it declares replaces the generated one,
\* and is there without any volume.
C21_FirstVolumeWins ==
  "repoHost" \in pgbackrest.generated =>
    LET repos == pgbackrest.in.repos
        volumes == {i \in DOMAIN repos : repos[i].Kind = "Volume"}
        first == CHOOSE i \in volumes : \A j \in volumes : i <= j
        logPaths == {l \in pgbackrest.repoHost.global : l[1] = "log-path"}
    IN IF "log-path" \in pgbackrest.in.globalConfig
       THEN logPaths = {<<"log-path", <<"declared">>>>}
       ELSE IF volumes = {} THEN logPaths = {}
       ELSE logPaths = {<<"log-path", <<"/pgbackrest/" \o repos[first].Name \o "/log">>>>}

\* Two volumes, the second of the list named before the first.
C21_Witness ==
  /\ "repoHost" \in pgbackrest.generated
  /\ pgbackrest.in.repos = <<[Name |-> "repo2", Kind |-> "Volume"],
                             [Name |-> "repo1", Kind |-> "Volume"]>>
  /\ "log-path" \notin pgbackrest.in.globalConfig
  /\ <<"log-path", <<"/pgbackrest/repo2/log">>>> \in pgbackrest.repoHost.global

C22_WitnessTry ==
  /\ ivory.set
  /\ \E i \in DOMAIN ivory.instanceSets :
       /\ <<"hugepages", "-", "2Mi">> \in DOMAIN ivory.instanceSets[i].Limits
       /\ ivory.instanceSets[i].Limits[<<"hugepages", "-", "2Mi">>] = 1
  /\ ivory.parameters = {<<"huge_pages", "try">>}

\* C24. Shutdown gate: a pass applies the upgrade job or a remove-data job,
\* deletes Patroni endpoints or replica-create jobs, or patches the cluster
\* status only when its snapshot reports the cluster shut down with its
\* primary identified. A pass whose snapshot of a found cluster reports
\* otherwise makes none of these calls, and ends with Progressing False,
\* reason PGClusterNotShutdown, when no earlier outcome (resolved, completed)
\* ends it.
C24_ShutdownGate ==
  last.ran =>
    /\ (last.calls # NoCalls \/ last.created) =>
         /\ last.world.observed
         /\ last.world.ClusterShutdown
         /\ last.world.ClusterPrimary
    /\ (/\ last.world.observed
        /\ ~last.world.ClusterNotFound
        /\ ~(last.world.ClusterShutdown /\ last.world.ClusterPrimary)) =>
         /\ last.calls = NoCalls
         /\ ~last.created
         /\ (/\ ~(/\ last.world.Cluster.specVersion = upgrade.to
                  /\ last.world.Jobs.upgrade # "Complete")
             /\ last.world.Cluster.statusVersion # upgrade.to) =>
              /\ last.status.Progressing.status = "False"
              /\ last.status.Progressing.reason = "PGClusterNotShutdown"

\* C24 as stated: every pass whose snapshot does not report the cluster shut
\* down with its primary identified ends with reason PGClusterNotShutdown.
C24_EndsNotShutdownAlways ==
  (/\ last.ran
   /\ last.world.observed
   /\ ~last.world.ClusterNotFound
   /\ ~(last.world.ClusterShutdown /\ last.world.ClusterPrimary)) =>
    /\ last.calls = NoCalls
    /\ last.status.Progressing.status = "False"
    /\ last.status.Progressing.reason = "PGClusterNotShutdown"

\* A pass that drove the upgrade forward: it applied the upgrade job and
\* deleted endpoints, on a cluster shut down with its primary identified.
C24_Witness ==
  /\ last.ran
  /\ last.calls.upgradeJobApplied
  /\ last.calls.endpointsDeleted # {}
  /\ last.world.ClusterShutdown
  /\ last.world.ClusterPrimary

\* C25. Version-match gate: the upgrade job is applied only in a pass whose
\* snapshot shows the declared version of the cluster equal to fromVersion,
\* whatever version the cluster status reports. A pass that finds the
\* declared version different from fromVersion makes no call, and ends with
\* Progressing False, reason IvyUpgradeInvalidForCluster, when no earlier
\* outcome (resolved, completed, not shut down) ends it.
C25_VersionMatchGate ==
  last.ran =>
    /\ last.calls.applyUpgradeJob =>
         last.world.Cluster.specVersion = upgrade.from
    /\ (/\ last.world.observed
        /\ ~last.world.ClusterNotFound
        /\ last.world.Cluster.specVersion # upgrade.from) =>
         /\ last.calls = NoCalls
         /\ ~last.created
         /\ (/\ ~(/\ last.world.Cluster.specVersion = upgrade.to
                  /\ last.world.Jobs.upgrade # "Complete")
             /\ last.world.Cluster.statusVersion # upgrade.to
             /\ last.world.ClusterShutdown
             /\ last.world.ClusterPrimary) =>
              /\ last.status.Progressing.status = "False"
              /\ last.status.Progressing.reason = "IvyUpgradeInvalidForCluster"

\* C25 as stated: the gate is on the version the cluster status reports.
C25_RunningVersionGate ==
  last.ran =>
    /\ last.calls.applyUpgradeJob =>
         last.world.Cluster.statusVersion = upgrade.from
    /\ (/\ last.world.observed
        /\ ~last.world.ClusterNotFound
        /\ last.world.ClusterShutdown
        /\ last.world.ClusterPrimary
        /\ last.world.Cluster.specVersion # upgrade.to
        /\ last.world.Cluster.statusVersion # upgrade.to
        /\ last.world.Cluster.statusVersion # upgrade.from) =>
         /\ ~last.calls.applyUpgradeJob
         /\ last.status.Progressing.reason = "IvyUpgradeInvalidForCluster"

\* A pass stopped by the version gate although the cluster status reports
\* fromVersion as the running version: the declared version had been edited.
C25_Witness ==
  /\ last.ran
  /\ last.status.Progressing.reason = "IvyUpgradeInvalidForCluster"
  /\ last.calls = NoCalls
  /\ last.world.Cluster.specVersion # upgrade.from
  /\ last.world.Cluster.statusVersion = upgrade.from

\* A pass that applied the upgrade job to a cluster that declares
\* fromVersion and whose status does not report it.
C25_WitnessApplied ==
  /\ last.ran
  /\ last.calls.upgradeJobApplied
  /\ last.world.Cluster.specVersion = upgrade.from
  /\ last.world.Cluster.statusVersion # upgrade.from

\* C26. Completion fan-out: a pass patches the cluster status only when its
\* snapshot shows the upgrade job complete, as many completed remove-data
\* jobs as replicas expected, no failed job, a status version other than
\* toVersion, and every gate passed (cluster shut down, primary identified,
\* declared version equal to fromVersion, annotation present). A patch that
\* succeeds sets the status version to toVersion and empties the pgBackRest
\* repository statuses; the pass applies no job and deletes no Patroni
\* endpoints.
C26_CompletionFanOut ==
  (last.ran /\ last.calls.patchClusterStatus) =>
    /\ last.world.Jobs.upgrade = "Complete"
    /\ Cardinality({r \in ReplicaIds : last.world.Jobs.removeData[r] = "Complete"})
         = last.world.ReplicasExpected
    /\ \A r \in ReplicaIds : last.world.Jobs.removeData[r] # "Failed"
    /\ last.world.Cluster.statusVersion # upgrade.to
    /\ last.world.ClusterShutdown
    /\ last.world.ClusterPrimary
    /\ last.world.Cluster.specVersion = upgrade.from
    /\ last.world.Cluster.annotation = UpgradeName
    /\ upgrade.from < upgrade.to
    /\ ~last.calls.applyUpgradeJob
    /\ last.calls.applyRemoveData = {}
    /\ last.calls.deleteEndpoints = {}
    /\ last.calls.clusterStatusPatched =>
         /\ cluster.statusVersion = upgrade.to
         /\ ~cluster.repos
    /\ ~last.calls.clusterStatusPatched => cluster = last.world.Cluster

\* A fan-out pass on a cluster with a replica and Patroni endpoints: it
\* deleted a replica-create job, patched the cluster status, and left the
\* endpoints alone.
C26_Witness ==
  /\ last.ran
  /\ last.calls.clusterStatusPatched
  /\ last.calls.jobsDeleted # {}
  /\ last.world.ReplicasExpected >= 1
  /\ last.world.Cluster.repos
  /\ last.world.PatroniEndpoints # {}
  /\ endpoints = last.world.PatroniEndpoints
  /\ cluster.statusVersion = upgrade.to
  /\ ~cluster.repos

\* C27. Job ordering: a remove-data job is applied only in a pass whose
\* snapshot shows the upgrade job complete, and never in a pass that also
\* applies the upgrade job. Such a pass applies a remove-data job for the
\* replica instances of the snapshot and for no other instance: for each of
\* them when every apply succeeds, and for those before the first apply that
\* fails otherwise.
C27_JobOrdering ==
  (last.ran /\ last.calls.applyRemoveData # {}) =>
    /\ last.world.Jobs.upgrade = "Complete"
    /\ ~last.calls.applyUpgradeJob
    /\ ~last.created
    /\ last.calls.applyRemoveData \subseteq last.world.ClusterReplicas
    /\ last.fault # "applyRemoveData" =>
         /\ last.calls.applyRemoveData = last.world.ClusterReplicas
         /\ last.calls.removeDataApplied = last.world.ClusterReplicas
    /\ last.fault = "applyRemoveData" =>
         \E r \in last.calls.applyRemoveData :
           /\ last.calls.removeDataApplied = last.calls.applyRemoveData \ {r}
           /\ \A x \in last.calls.applyRemoveData : x <= r
    /\ \A r \in last.calls.removeDataApplied : jobs.removeData[r] # "Absent"
    /\ \A r \in ReplicaIds \ last.calls.removeDataApplied :
         jobs.removeData[r] = last.world.Jobs.removeData[r]

\* C27 as stated: a pass that applies a remove-data job applies one for each
\* replica instance of its snapshot.
C27_EachReplicaAlways ==
  (last.ran /\ last.calls.applyRemoveData # {}) =>
    /\ last.world.Jobs.upgrade = "Complete"
    /\ ~last.calls.applyUpgradeJob
    /\ last.calls.applyRemoveData = last.world.ClusterReplicas

\* A pass that applied a remove-data job for each of the two replicas of the
\* cluster, after the upgrade job had completed.
C27_Witness ==
  /\ last.ran
  /\ last.world.Jobs.upgrade = "Complete"
  /\ Cardinality(last.world.ClusterReplicas) = 2
  /\ last.calls.removeDataApplied = last.world.ClusterReplicas
  /\ \A r \in last.world.ClusterReplicas : last.world.Jobs.removeData[r] = "Absent"
  /\ \A r \in last.world.ClusterReplicas : jobs.removeData[r] = "Active"

\* A pass whose first apply of a remove-data job failed: the second replica
\* got none.
C27_WitnessStopped ==
  /\ last.ran
  /\ last.fault = "applyRemoveData"
  /\ Cardinality(last.world.ClusterReplicas) = 2
  /\ Cardinality(last.calls.applyRemoveData) = 1
  /\ last.calls.removeDataApplied = {}

\* C28. Consensus-record cleanup: a pass deletes Patroni endpoints only when
\* its snapshot reports the cluster shut down with its primary identified;
\* each delete carries the identity and version of the snapshot, so however
\* the loop interleaves with restarts of the cluster, what it deletes is an
\* object of the snapshot as it was observed, and never an object the running
\* Patroni session has written; a pass that observed endpoints at that step
\* returns Requeue true.
C28_ConsensusCleanup ==
  [][/\ last'.calls.deleteEndpoints # {} =>
          /\ last'.world.ClusterShutdown
          /\ last'.world.ClusterPrimary
          /\ last'.calls.deleteEndpoints \subseteq last'.world.PatroniEndpoints
     /\ last'.calls.endpointsDeleted \subseteq last'.world.PatroniEndpoints
     /\ \A o \in endpoints \ endpoints' :
          o \in last'.calls.endpointsDeleted => o \notin dcs.live
     /\ (last'.ran /\ last'.gate = "Drive" /\ last'.world.PatroniEndpoints # {}) =>
          last'.result.Requeue]_vars

\* C28 as stated: no endpoints object is deleted while the cluster runs.
C28_DeletedOnlyWhileShutDown ==
  [][last'.calls.endpointsDeleted # last.calls.endpointsDeleted =>
       ~cluster.running]_vars

\* A pass whose delete met an object that the Patroni session started after
\* the snapshot had written: the delete failed on its preconditions, the
\* object is still there, and the pass returned Requeue true.
C28_Witness ==
  /\ last.ran
  /\ last.gate = "Drive"
  /\ last.result.Requeue
  /\ cluster.running
  /\ \E o \in last.calls.deleteEndpoints \ last.calls.endpointsDeleted :
       \E n \in endpoints \cap dcs.live : n[1] = o[1] /\ n[2] > o[2]
  /\ last.calls.endpointsDeleted # {}

\* C29. One active upgrade per cluster: take the cluster state a pass has
\* observed and a pass of any other upgrade request, of another name, over
\* the same cluster state and the same replica-create jobs, whatever the jobs
\* of that request are. The annotation of the cluster allows at most one of
\* the two requests, a request that is not allowed makes no call, and so the
\* two passes never both apply a job.
C29_OneActiveUpgrade ==
  (last.ran /\ last.world.observed /\ ~last.world.ClusterNotFound) =>
    \A other \in [exists : {TRUE}, name : {OtherUpgradeName}, from : Versions,
                  to : Versions, status : {NoConditions}] :
    \A u, d \in JobStates :
      LET w == [last.world EXCEPT
                  !.Jobs = [upgrade |-> u, removeData |-> [r \in ReplicaIds |-> d],
                            replicaCreate |-> last.world.Jobs.replicaCreate]]
      IN \A counted \in RemoveDataCounts(w) :
           LET out == ReconcileRequest(other, other.status, w, NoFault, counted, {})
           IN /\ ~(allowed(upgrade, last.world) /\ allowed(other, w))
              /\ ~allowed(upgrade, last.world) => last.calls = NoCalls
              /\ ~allowed(other, w) => out.calls = NoCalls
              /\ ~(/\ last.calls.applyUpgradeJob \/ last.calls.applyRemoveData # {}
                   /\ out.calls.applyUpgradeJob \/ out.calls.applyRemoveData # {})

\* A pass stopped at the annotation, which names the other request; a pass
\* of that request over the same cluster state applies its upgrade job.
C29_Witness ==
  /\ last.ran
  /\ last.status.Progressing.reason = "PGClusterMissingRequiredAnnotation"
  /\ last.calls = NoCalls
  /\ last.world.Cluster.annotation = OtherUpgradeName
  /\ LET other == [upgrade EXCEPT !.name = OtherUpgradeName, !.status = NoConditions]
         w == [last.world EXCEPT !.Jobs.upgrade = "Absent"]
     IN \E counted \in RemoveDataCounts(w) :
          ReconcileRequest(other, other.status, w, NoFault, counted, {}).calls.applyUpgradeJob

\* A pass that applied the upgrade job of the request the annotation names; a
\* pass of the other request over the same cluster state makes no call.
C29_WitnessApplied ==
  /\ last.ran
  /\ last.calls.upgradeJobApplied
  /\ last.world.Cluster.annotation = UpgradeName

\* C30. Observation failure: a pass whose observation of the world fails
\* ends with Progressing False, reason PGClusterErrorWhenObservingWorld, makes
\* no apply and no delete, and returns the error of the observation with an
\* empty result; on the way out it patches the upgrade status if the
\* conditions differ from those it read, and only then.
C30_ObservationFailure ==
  (last.ran /\ last.fault = "observeWorld") =>
    /\ ~last.world.observed
    /\ last.status.Progressing.status = "False"
    /\ last.status.Progressing.reason = "PGClusterErrorWhenObservingWorld"
    /\ last.calls = NoCalls
    /\ ~last.created
    /\ last.err = "observeWorld"
    /\ last.result = EmptyResult
    /\ last.statusPatch = "ok" <=> last.status # last.before
    /\ last.statusPatch = "none" <=> last.status = last.before
    /\ upgrade.status = last.status

\* C30 as stated: every such pass issues the patch of the status.
C30_PatchAlwaysIssued ==
  (last.ran /\ last.fault = "observeWorld") =>
    /\ last.status.Progressing.reason = "PGClusterErrorWhenObservingWorld"
    /\ last.calls = NoCalls
    /\ last.err = "observeWorld"
    /\ last.statusPatch # "none"

\* A first failure of the observation: the pass wrote the condition and
\* returned the error.
C30_Witness ==
  /\ last.ran
  /\ last.fault = "observeWorld"
  /\ last.before.Progressing.reason # "PGClusterErrorWhenObservingWorld"
  /\ last.statusPatch = "ok"
  /\ upgrade.status.Progressing.reason = "PGClusterErrorWhenObservingWorld"
  /\ last.err = "observeWorld"

\* A second failure in a row: the condition is there already and no patch is
\* issued.
C30_WitnessRepeated ==
  /\ last.ran
  /\ last.fault = "observeWorld"
  /\ last.before.Progressing.reason = "PGClusterErrorWhenObservingWorld"
  /\ last.statusPatch = "none"
  /\ last.err = "observeWorld"

\* C31. Global overrides win: in the configuration of the instances and in
\* that of the repository host, every key of the global configuration the
\* cluster declares has exactly one line in the global section, with the
\* declared value, also when the synthesis generates the same key (log-path,
\* a repository path, a repository host).
C31_GlobalOverridesWin ==
  \A role \in pgbackrest.generated :
    LET global == IF role = "instance" THEN pgbackrest.instance.global
                  ELSE pgbackrest.repoHost.global
    IN \A k \in pgbackrest.in.globalConfig :
         {l \in global : l[1] = k} = {<<k, <<"declared">>>>}

\* Both configurations generated for a cluster with a repository host and a
\* volume repo1 that declares repo1-path and repo1-host itself.
C31_Witness ==
  /\ pgbackrest.generated = {"instance", "repoHost"}
  /\ pgbackrest.in.globalConfig = {"repo1-path", "repo1-host"}
  /\ pgbackrest.in.repoHostName # ""
  /\ Len(pgbackrest.in.repos) >= 1
  /\ pgbackrest.in.repos[1] = [Name |-> "repo1", Kind |-> "Volume"]
  /\ <<"repo1-host", <<"declared">>>> \in pgbackrest.instance.global
  /\ <<"repo1-path", <<"declared">>>> \in pgbackrest.instance.global
  /\ <<"repo1-path", <<"declared">>>> \in pgbackrest.repoHost.global

\* Both configurations generated for a cluster that declares log-path.
C31_WitnessLogPath ==
  /\ pgbackrest.generated = {"instance", "repoHost"}
  /\ "log-path" \in pgbackrest.in.globalConfig
  /\ \E i \in DOMAIN pgbackrest.in.repos : pgbackrest.in.repos[i].Kind = "Volume"
  /\ <<"log-path", <<"declared">>>> \in pgbackrest.instance.global
  /\ <<"log-path", <<"declared">>>> \in pgbackrest.repoHost.global

\* C32. The stanza of the repository host: for the host at index i (counted
\* from one) it holds pg<i>-host with the name of the pod of the host,
\* pg<i>-host-type tls, the three certificate files, pg<i>-path, pg<i>-port
\* and pg<i>-socket-path, each once, and no other key: no pg<i>-host-user.
C32_HostStanza ==
  "repoHost" \in pgbackrest.generated =>
    LET hosts == pgbackrest.in.pgHosts
        Lines(i) ==
          LET pg == "pg" \o ToString(i)
          IN {<<pg \o "-host", <<hosts[i] \o "-0.pods.ns.svc.cluster.local">>>>,
              <<pg \o "-host-type", <<"tls">>>>,
              <<pg \o "-host-ca-file", <<"certAuthorityAbsolutePath">>>>,
              <<pg \o "-host-cert-file", <<"certClientAbsolutePath">>>>,
              <<pg \o "-host-key-file", <<"certClientPrivateKeyAbsolutePath">>>>,
              <<pg \o "-path", <<"pgdataDir">>>>,
              <<pg \o "-port", <<"pgPort">>>>,
              <<pg \o "-socket-path", <<"SocketDirectory">>>>}
    IN /\ pgbackrest.repoHost.db = UNION {Lines(i) : i \in DOMAIN hosts}
       /\ \A i \in DOMAIN hosts :
            "pg" \o ToString(i) \o "-host-user" \notin LineKeys(pgbackrest.repoHost.db)

\* C32 as stated: the stanza holds pg<i>-host-user for every host, as the
\* global section of an instance holds repo<n>-host-user.
C32_HostUserInStanza ==
  "repoHost" \in pgbackrest.generated =>
    \A i \in DOMAIN pgbackrest.in.pgHosts :
      {"pg" \o ToString(i) \o k :
         k \in {"-host", "-host-type", "-host-ca-file", "-host-cert-file",
                "-host-key-file", "-host-user", "-path", "-port", "-socket-path"}}
        \subseteq LineKeys(pgbackrest.repoHost.db)

\* The configuration of a repository host of two hosts, next to that of an
\* instance whose volume repository names the repository host and its user.
C32_Witness ==
  /\ pgbackrest.generated = {"instance", "repoHost"}
  /\ pgbackrest.in.pgHosts = <<"h1", "h2">>
  /\ "repo1-host-user" \in LineKeys(pgbackrest.instance.global)
  /\ "pg2-host-key-file" \in LineKeys(pgbackrest.repoHost.db)
  /\ "pg2-socket-path" \in LineKeys(pgbackrest.repoHost.db)

\* C33. The monitoring secret is stable. A pass that read a secret with a
\* password and a verifier while the exporter is enabled hands r.apply an
\* intent with exactly these two values and leaves those of the store as
\* they were; a pass generates a pair only when the exporter is enabled and
\* one of the two values is missing or empty; a pass that read a secret while
\* the exporter is disabled calls deleteControlled on it and returns nil for
\* the secret, with the error of the deletion unless that is nil or not-found.
C33_SecretStable ==
  LET l == monitoring.last
      read == l.ran /\ l.fault # "get" /\ l.before.exists
      filled == l.before.password # <<>> /\ l.before.verifier # <<>>
  IN /\ (read /\ ExporterEnabled(monitoring) /\ filled) =>
          /\ l.apply = l.before
          /\ monitoring.secret = l.before
          /\ ~l.generated
     /\ (l.ran /\ l.generated) =>
          ExporterEnabled(monitoring) /\ ~filled
     /\ (read /\ ~ExporterEnabled(monitoring)) =>
          /\ l.deleteControlled
          /\ l.result = NoSecret
          /\ l.err = (IF l.fault = "delete" THEN "delete" ELSE "nil")
          /\ l.err = "nil" => monitoring.secret = NoSecret

\* C33 as stated: with the exporter disabled an existing secret is deleted
\* and nil is returned without error, in every pass that read the secret.
C33_DeletedWithoutError ==
  LET l == monitoring.last
  IN (l.ran /\ l.fault # "get" /\ l.before.exists /\ ~ExporterEnabled(monitoring)) =>
       /\ monitoring.secret = NoSecret
       /\ l.result = NoSecret
       /\ l.err = "nil"

\* A second pass in a row over a generated pair: the intent carries the pair
\* the first pass generated.
C33_Witness ==
  /\ monitoring.last.ran
  /\ monitoring.enabled
  /\ monitoring.last.before = [exists |-> TRUE, password |-> <<"password", 1>>,
                               verifier |-> <<"verifier", 1>>]
  /\ monitoring.last.apply = monitoring.last.before
  /\ monitoring.last.result = monitoring.last.before
  /\ monitoring.generated = 1

\* A pass that deleted the secret of a disabled exporter.
C33_WitnessDeleted ==
  /\ monitoring.last.ran
  /\ ~monitoring.enabled
  /\ monitoring.last.before.exists
  /\ monitoring.last.deleteControlled
  /\ monitoring.last.err = "nil"
  /\ monitoring.secret = NoSecret

\* C34. Helper failures bubble up: a pass in which the apply of the upgrade
\* job or of a remove-data job fails, or in which the deletion of a Patroni
\* endpoints object fails with an error other than not-found, returns an
\* error, whatever the later deletions of endpoints in the pass answer.
C34_HelperFailuresBubbleUp ==
  (/\ last.ran
   /\ \/ last.fault \in {"applyUpgradeJob", "applyRemoveData"}
      \/ last.fault = "deleteEndpoints" /\ IgnoreNotFound(last.faultError) # "nil")
    => last.err # "nil"

\* C34, the part on the applies: a failed apply is returned also when Patroni
\* endpoints are deleted after it.
C34_ApplyFailureReturned ==
  (last.ran /\ last.fault \in {"applyUpgradeJob", "applyRemoveData"})
    => last.err # "nil"

\* C34, the part on the endpoints: a failed deletion is returned also when it
\* is not the last of the loop.
C34_EndpointsFailureReturned ==
  (last.ran /\ last.fault = "deleteEndpoints" /\ IgnoreNotFound(last.faultError) # "nil")
    => last.err # "nil"

\* C35. Reconcile is idempotent on status: a pass that follows a pass over
\* the same world, with the same answers of the API, and reads the status
\* the first pass ended with ends with that same status and issues no status
\* patch.
C35_IdempotentOnStatus ==
  [][(/\ last.ran /\ last'.ran
      /\ last'.world = last.world
      /\ last'.fault = last.fault /\ last'.faultError = last.faultError
      /\ last'.before = last.status)
       => /\ last'.status = last.status
          /\ last'.statusPatch = "none"]_vars

\* C35 where the order of the loop over world.Jobs does not matter: no
\* remove-data job of the world has failed.
C35_IdempotentWithoutFailedJob ==
  [][(/\ last.ran /\ last'.ran
      /\ last'.world = last.world
      /\ last'.fault = last.fault /\ last'.faultError = last.faultError
      /\ last'.before = last.status
      /\ Cardinality(RemoveDataCounts(last.world)) = 1)
       => /\ last'.status = last.status
          /\ last'.statusPatch = "none"]_vars

\* C36. The version gate compares the declared version of the cluster: a pass
\* applies the upgrade job only if the declared version of the observed
\* cluster equals fromVersion and its status does not report toVersion; a
\* pass that observes a cluster shut down with its primary known, declaring
\* a version that is neither fromVersion nor toVersion, and whose status does
\* not report toVersion, makes no call and ends with Progressing False,
\* reason IvyUpgradeInvalidForCluster.
C36_DeclaredVersionGate ==
  last.ran =>
    /\ last.calls.applyUpgradeJob =>
         /\ last.world.Cluster.specVersion = upgrade.from
         /\ last.world.Cluster.statusVersion # upgrade.to
    /\ (/\ last.world.observed /\ ~last.world.ClusterNotFound
        /\ last.world.Cluster.specVersion \notin {upgrade.from, upgrade.to}
        /\ last.world.ClusterShutdown
        /\ last.world.ClusterPrimary
        /\ last.world.Cluster.statusVersion # upgrade.to) =>
         /\ last.calls = NoCalls
         /\ last.status.Progressing.status = "False"
         /\ last.status.Progressing.reason = "IvyUpgradeInvalidForCluster"

\* C36 as stated: once the cluster is shut down, a declared version that is
\* neither fromVersion nor toVersion always ends the pass with reason
\* IvyUpgradeInvalidForCluster.
C36_AlwaysInvalidForCluster ==
  (/\ last.ran
   /\ last.world.observed /\ ~last.world.ClusterNotFound
   /\ last.world.Cluster.specVersion \notin {upgrade.from, upgrade.to}
   /\ last.world.ClusterShutdown
   /\ last.world.ClusterPrimary) =>
     last.status.Progressing.reason = "IvyUpgradeInvalidForCluster"

\* A pass stopped by the version gate on a cluster that declares a version
\* the upgrade does not name, while its status reports fromVersion.
C36_Witness ==
  /\ last.ran
  /\ last.gate = "IvyUpgradeInvalidForCluster"
  /\ last.world.Cluster.specVersion \notin {upgrade.from, upgrade.to}
  /\ last.world.Cluster.statusVersion = upgrade.from
  /\ last.world.ClusterShutdown
  /\ last.calls = NoCalls

\* A pass that applied the upgrade job.
C36_WitnessApplied ==
  /\ last.ran
  /\ last.calls.applyUpgradeJob
  /\ last.created
  /\ last.world.Cluster.specVersion = upgrade.from
  /\ last.world.Cluster.statusVersion = 0

\* The completion fan-out of the last pass, when the deletion of a
\* replica-create job failed with an error other than not-found.
C37_DeleteFailed ==
  /\ last.ran /\ last.gate = "FanOut"
  /\ last.fault = "deleteJob" /\ IgnoreNotFound(last.faultError) # "nil"

\* What a fan-out leaves: the patch only after deletions that all succeeded,
\* and after a failed deletion the other jobs, the cluster and the error.
C37_FanOutOutcome ==
  LET todo == {ReplicaCreateKey(b) : b \in last.world.Jobs.replicaCreate}
  IN (last.ran /\ last.gate = "FanOut") =>
       /\ last.calls.clusterStatusPatched =>
            /\ ~C37_DeleteFailed
            /\ last.calls.deleteJob = todo /\ last.calls.jobsDeleted = todo
            /\ cluster.statusVersion = upgrade.to
       /\ C37_DeleteFailed =>
            /\ Cardinality(last.calls.deleteJob \ last.calls.jobsDeleted) = 1
            /\ {ReplicaCreateKey(b) : b \in jobs.replicaCreate}
                 = todo \ last.calls.jobsDeleted
            /\ ~last.calls.patchClusterStatus
            /\ cluster = last.world.Cluster
            /\ last.err = "deleteJob"

\* C37. In the completion fan-out the cluster status is patched to toVersion
\* only if every deletion of a replica-create job of the pass succeeded or
\* answered not-found. After the first deletion that fails otherwise, no
\* further job is deleted, the patch of the cluster status is not issued, the
\* cluster is left as observed and the error is returned; the next pass that
\* observes the world takes the fan-out again.
C37_FanOutStopsAtFirstError ==
  [][/\ C37_FanOutOutcome'
     /\ (C37_DeleteFailed /\ last'.ran /\ last'.world.observed)
          => last'.gate = "FanOut"]_vars

\* A fan-out over two replica-create jobs: the first deletion fails with a
\* conflict and the other job is not touched.
C37_Witness ==
  /\ C37_DeleteFailed
  /\ Cardinality(last.world.Jobs.replicaCreate) = 2
  /\ last.calls.jobsDeleted = {}
  /\ Cardinality(last.calls.deleteJob) = 1
  /\ jobs.replicaCreate = last.world.Jobs.replicaCreate
  /\ cluster.statusVersion # upgrade.to

\* A second fan-out, after one that failed at its second deletion: it deletes
\* the job that is left and patches the cluster status.
C37_WitnessRetried ==
  /\ last.ran /\ last.gate = "FanOut"
  /\ Cardinality(last.world.Jobs.replicaCreate) = 1
  /\ last.calls.clusterStatusPatched
  /\ jobs.replicaCreate = {}
  /\ cluster.statusVersion = upgrade.to

\* C38. A pass that applies the upgrade job or a remove-data job, or that
\* records Succeeded False with reason IvyUpgradeFailed, ends with
\* Progressing True, reason IvyUpgradeProgressing: no reason of an earlier
\* pass, IvyUpgradeCompleted among them, is left in place.
C38_ProgressingWhenMovingForward ==
  (/\ last.ran
   /\ \/ last.calls.applyUpgradeJob
      \/ last.calls.applyRemoveData # {}
      \/ last.gate = "IvyUpgradeFailed")
    => /\ last.status.Progressing.status = "True"
       /\ last.status.Progressing.reason = "IvyUpgradeProgressing"

\* C38 but for the reason of the completed gate, the one reason no refresh
\* of Reconcile names.
C38_OnlyCompletedSurvives ==
  (/\ last.ran
   /\ \/ last.calls.applyUpgradeJob
      \/ last.calls.applyRemoveData # {}
      \/ last.gate = "IvyUpgradeFailed")
    => \/ /\ last.status.Progressing.status = "True"
          /\ last.status.Progressing.reason = "IvyUpgradeProgressing"
       \/ /\ last.status.Progressing = last.before.Progressing
          /\ last.status.Progressing.status = "False"
          /\ last.status.Progressing.reason = "IvyUpgradeCompleted"

\* The upgrade job is complete, no job has failed, every gate passes, the
\* cluster status does not report toVersion yet, and at least as many
\* remove-data jobs are complete as replicas are expected.
C39_CleanupComplete ==
  /\ upgrade.exists /\ cluster.exists
  /\ ~cluster.running /\ cluster.primary
  /\ cluster.specVersion = upgrade.from
  /\ cluster.annotation = upgrade.name
  /\ cluster.statusVersion # upgrade.to
  /\ jobs.upgrade = "Complete"
  /\ \A r \in ReplicaIds : jobs.removeData[r] # "Failed"
  /\ Cardinality({r \in ReplicaIds : jobs.removeData[r] = "Complete"})
       >= Cardinality(statefulsets)

\* C39. Cleanup completeness is recognised in the end: from a state in which
\* the cleanup is complete, a pass performs the completion fan-out, unless
\* the state is left; the upgrade does not stay in the drive-forward phase
\* for ever, also when more remove-data jobs are complete than replicas
\* are expected.
C39_CleanupRecognised ==
  C39_CleanupComplete
    ~> (~C39_CleanupComplete \/ (last.ran /\ last.gate = "FanOut"))

\* C39 where exactly as many remove-data jobs are complete as replicas are
\* expected.
C39_ExactCount ==
  /\ C39_CleanupComplete
  /\ Cardinality({r \in ReplicaIds : jobs.removeData[r] = "Complete"})
       = Cardinality(statefulsets)

\* C39 for the exact count: a pass performs the fan-out unless the state is
\* left.
C39_ExactCountRecognised ==
  C39_ExactCount ~> (~C39_ExactCount \/ (last.ran /\ last.gate = "FanOut"))

\* A drive-forward pass over a world with more completed remove-data jobs
\* than expected replicas.
C39_WitnessExceeds ==
  /\ C39_CleanupComplete
  /\ last.ran /\ last.gate = "Drive"
  /\ Cardinality({r \in ReplicaIds : jobs.removeData[r] = "Complete"})
       > Cardinality(statefulsets)

\* What a pass of reconcilePGMonitorExporter leaves of the recorded revision:
\* it changes only in a pass that returns nil after the fetch of the setup
\* script, when the exporter is enabled, and every call of the action; a
\* pass that returns an error leaves it as it was.
C40_RecordedOutcome ==
  LET m == monitoring
      l == monitoring.last
      calls == action(m, GetExporterSetupSQL(m.postgresVersion))
  IN l.ran =>
       /\ m.ExporterConfiguration # l.before =>
            /\ l.err = "nil"
            /\ m.ExporterConfiguration = l.revision
            /\ l.podExec = (IF ExporterEnabled(m)
                            THEN <<ContainerPGMonitorExporter>> ELSE <<>>)
                             \o [i \in 1..Len(calls) |-> ContainerDatabase]
       /\ l.err # "nil" =>
            /\ m.ExporterConfiguration = l.before
            /\ l.fault.kind \in {"getSetup", "exec"}
            /\ l.fault.kind = "getSetup" => l.podExec = <<ContainerPGMonitorExporter>>

\* C40. The recorded monitoring revision changes only after success:
\* ExporterConfiguration becomes the new hash only in a pass in which the
\* fetch of the setup script, when the exporter is enabled, and the SQL
\* action both succeeded; if either fails the recorded value is unchanged
\* and the error is returned, and the next pass over the same inputs
\* attempts the action again.
C40_RecordedOnlyAfterSuccess ==
  [][/\ C40_RecordedOutcome'
     /\ (monitoring.last.ran /\ monitoring.last.err # "nil" /\ monitoring'.last.ran)
          => /\ monitoring'.last.podExec # <<>>
             /\ monitoring'.last.revision = monitoring.last.revision]_vars

\* A pass whose fetch of the setup script failed, over a cluster that has a
\* recorded revision of an earlier configuration: the record is kept.
C40_Witness ==
  /\ monitoring.last.ran
  /\ monitoring.last.err = "getSetup"
  /\ monitoring.last.before # NoRevision
  /\ monitoring.ExporterConfiguration = monitoring.last.before
  /\ monitoring.last.revision # monitoring.last.before

\* A pass whose second call of the action failed.
C40_WitnessExec ==
  /\ monitoring.last.ran
  /\ monitoring.last.err = "exec"
  /\ Len(monitoring.last.podExec) = 3
  /\ monitoring.ExporterConfiguration = monitoring.last.before

====
